---- MODULE Spec2Model ----
(***************************************************************************)
(* Generational entity-component-system runtime of src/src/ecs.rs:         *)
(* EntityManager (allocator), ComponentPool, EntityComponentManager,       *)
(* EntityComponentWrapper (change-tracking view) and Registry.             *)
(*                                                                         *)
(* Rust structs are records, Vec<T> is a sequence (index i of the Vec is   *)
(* element i+1 of the sequence), HashMap<K,V> is a function whose DOMAIN   *)
(* is the key set, HashSet<T> is a set, Option::None is the value None.    *)
(* A panic (index out of bounds, unwrap of None) is the result "panic";    *)
(* it unwinds the program, and nothing runs afterwards.                    *)
(* get_component is a pure read: what a call returns in a state is the     *)
(* value of EntityComponentManager_get_component there.                    *)
(***************************************************************************)
EXTENDS Integers, Sequences, FiniteSets, TLC

\* ecs.rs:7
VEC_RESIZE_MARGIN == 10

\* Bounds of the model.
\* create_entity mints a new id only while next_entity_id < MaxEntities.
MaxEntities == 2
\* remove_entity is only called on a live handle while fewer than MaxRemovals
\* removals have succeeded.
MaxRemovals == 2
\* Number of mutating view calls one System::run makes.
MaxViewOps == 2
\* Number of calls (Registry and view methods, returns of run) in a behaviour.
MaxSteps == 8
\* Ids minted in the pool-growth specification SpecPool.
MaxPoolEntities == 11
\* add_handler calls in a behaviour.
MaxSubscriptions == 3
\* Ids minted, and calls made, in the collision specification SpecCollision.
MaxCollisionEntities == 3
\* The largest coordinate, near the origin, of the positions and map corners
\* CameraFocusSystem::run is applied to.
MaxCameraCoordinate == 6

\* The width of GenerationT in bits. GenerationT is u32; the counters of the model
\* are GenerationBits wide, so that the behaviour of a counter at its largest
\* value is reached after 2^GenerationBits removals of one id.
GenerationBits == 2

\* The largest coordinate of the rectangles Rectangle's functions are applied to.
MaxCoordinate == 2

MaxCollisionSteps == 12

\* Option::None
None == 0
\* TypeId::of::<T>() of the component types used by the systems below.
ComponentTypes == {"RigidBodyComponent", "KeyboardControlComponent"}
\* The values of a component type: two distinct RigidBodyComponent values, and
\* the one value of the unit struct KeyboardControlComponent.
Values(type_id) == IF type_id = "RigidBodyComponent" THEN {1, 2} ELSE {1}
\* TypeId::of::<S>() of the registered system types.
SystemTypes == {"MovementSystem", "KeyboardControlSystem"}
NoSystem == "NoSystem"
NoType == "NoType"
NoEntity == [id |-> -1, generation |-> -1]

\* MovementSystem::new / CollisionSystem::new / CameraFocusSystem::new /
\* KeyboardControlSystem::new: the required set fixed at construction.
required_components(s) ==
    IF s = "MovementSystem"
    THEN {"RigidBodyComponent"}
    ELSE IF s = "CollisionSystem"
    THEN {"RigidBodyComponent", "CollisionComponent"}
    ELSE IF s = "CameraFocusSystem"
    THEN {"RigidBodyComponent", "CameraFocusComponent"}
    ELSE {"RigidBodyComponent", "KeyboardControlComponent"}

\* HashSet::is_superset
is_superset(a, b) == b \subseteq a

\* Vec::resize(new_len, value), growing case (it is only called with new_len > len).
Resize(vec, new_len, value) ==
    IF new_len <= Len(vec)
    THEN SubSeq(vec, 1, new_len)
    ELSE vec \o [i \in 1..(new_len - Len(vec)) |-> value]

-----------------------------------------------------------------------------
(* EntityManager *)

EntityManager_new ==
    [free_entity_ids |-> <<>>, next_entity_id |-> 0, generations |-> <<>>]

alive_generation(em, entity_id) ==
    IF entity_id >= Len(em.generations) THEN 0 ELSE em.generations[entity_id + 1]

is_alive(em, entity) == entity.generation = alive_generation(em, entity.id)

is_dead_wrong_comparison(em, entity) == entity.generation > alive_generation(em, entity.id)

is_dead(em, entity) == entity.generation # alive_generation(em, entity.id)

\* Vec::pop takes the last element.
pop_front_id(free_entity_ids) == free_entity_ids[1]

pop_id(free_entity_ids) == free_entity_ids[Len(free_entity_ids)]

pop_rest_keeps_id(free_entity_ids) == free_entity_ids

pop_rest(free_entity_ids) == SubSeq(free_entity_ids, 1, Len(free_entity_ids) - 1)

create_entity_always_mints(em) ==
    [em |-> [em EXCEPT !.next_entity_id = em.next_entity_id + 1],
     entity |-> [id |-> em.next_entity_id,
                 generation |-> alive_generation(em, em.next_entity_id)]]

\* Returns [em |-> the manager afterwards, entity |-> the handle returned].
EntityManager_create_entity(em) ==
    IF em.free_entity_ids # <<>>
    THEN LET entity_id == pop_id(em.free_entity_ids)
         IN  [em |-> [em EXCEPT !.free_entity_ids = pop_rest(em.free_entity_ids)],
              entity |-> [id |-> entity_id, generation |-> alive_generation(em, entity_id)]]
    ELSE [em |-> [em EXCEPT !.next_entity_id = em.next_entity_id + 1],
          entity |-> [id |-> em.next_entity_id,
                      generation |-> alive_generation(em, em.next_entity_id)]]

increment_generation_never(generations, entity_id) == generations

increment_generation_twice(generations, entity_id) ==
    [generations EXCEPT ![entity_id + 1] = @ + 2]

\* GenerationT::MAX
GenerationT_MAX == 2^GenerationBits - 1

\* generations[entity_id] += 1 in GenerationT, as a build without overflow
\* checks computes it; a build with overflow checks panics where this wraps.
increment_generation(generations, entity_id) ==
    [generations EXCEPT ![entity_id + 1] = (@ + 1) % (GenerationT_MAX + 1)]

\* The += 1 of remove_entity(entity) overflows GenerationT.
increment_overflows(em, entity) ==
    is_alive(em, entity) /\ alive_generation(em, entity.id) = GenerationT_MAX

remove_entity_unchecked(em, entity) ==
    LET grown == IF entity.id >= Len(em.generations)
                 THEN Resize(em.generations, entity.id + VEC_RESIZE_MARGIN, 0)
                 ELSE em.generations
    IN  [em |-> [em EXCEPT !.generations = increment_generation(grown, entity.id),
                           !.free_entity_ids = Append(em.free_entity_ids, entity.id)],
         result |-> "Ok"]

\* Returns [em |-> the manager afterwards, result |-> "Ok" or "DeadEntity"].
EntityManager_remove_entity(em, entity) ==
    IF is_dead(em, entity)
    THEN [em |-> em, result |-> "DeadEntity"]
    ELSE LET grown == IF entity.id >= Len(em.generations)
                      THEN Resize(em.generations, entity.id + VEC_RESIZE_MARGIN, 0)
                      ELSE em.generations
         IN  [em |-> [em EXCEPT !.generations = increment_generation(grown, entity.id),
                                !.free_entity_ids = Append(em.free_entity_ids, entity.id)],
              result |-> "Ok"]

-----------------------------------------------------------------------------
(* ComponentPool: components is a Vec of (generation, Option<T>) *)

\* vec![(0, None); VEC_RESIZE_MARGIN] followed by components[entity.id] = ...;
\* the index is out of bounds (panic) when entity.id >= VEC_RESIZE_MARGIN.
ComponentPool_new_one_panics(entity) == entity.id >= VEC_RESIZE_MARGIN

new_one_stamps_every_slot(entity, component) ==
    [[i \in 1..VEC_RESIZE_MARGIN |-> <<entity.generation, None>>]
        EXCEPT ![entity.id + 1] = <<entity.generation, component>>]

ComponentPool_new_one(entity, component) ==
    [[i \in 1..VEC_RESIZE_MARGIN |-> <<0, None>>]
        EXCEPT ![entity.id + 1] = <<entity.generation, component>>]

slot_ignores_generation(slot, entity) == slot[2]

slot_read_rejects_newer(slot, entity) == IF slot[1] > entity.generation THEN None ELSE slot[2]

slot_read(slot, entity) == IF slot[1] < entity.generation THEN None ELSE slot[2]

\* ComponentPool::get and get_mut read the same slot under the same rule.
ComponentPool_get(components, entity) ==
    IF entity.id >= Len(components)
    THEN None
    ELSE slot_read(components[entity.id + 1], entity)

set_appends_slot(components, entity, component) ==
    Append(components, <<entity.generation, component>>)

ComponentPool_set(components, entity, component) ==
    LET grown == IF entity.id >= Len(components)
                 THEN Resize(components, entity.id + VEC_RESIZE_MARGIN, <<0, None>>)
                 ELSE components
    IN  [grown EXCEPT ![entity.id + 1] = <<entity.generation, component>>]

pool_remove_keeps_value(components, entity) == components

ComponentPool_remove(components, entity) ==
    IF entity.id >= Len(components)
    THEN components
    ELSE [components EXCEPT ![entity.id + 1] = <<entity.generation, None>>]

-----------------------------------------------------------------------------
(* HashMap::insert and HashMap::remove *)

MapPut(f, k, v) == [x \in (DOMAIN f) \cup {k} |-> IF x = k THEN v ELSE f[x]]

MapRemove(f, k) == [x \in (DOMAIN f) \ {k} |-> f[x]]

EmptyMap == [x \in {} |-> None]

-----------------------------------------------------------------------------
(* EntityComponentManager *)

EntityComponentManager_new ==
    [entity_manager |-> EntityManager_new,
     entity_components |-> EmptyMap,
     component_pools |-> EmptyMap]

create_entity_without_tag_set(ecm) ==
    LET r == EntityManager_create_entity(ecm.entity_manager)
    IN  [ecm |-> [ecm EXCEPT !.entity_manager = r.em], entity |-> r.entity]

\* Returns [ecm, entity].
EntityComponentManager_create_entity(ecm) ==
    LET r == EntityManager_create_entity(ecm.entity_manager)
    IN  [ecm |-> [ecm EXCEPT !.entity_manager = r.em,
                             !.entity_components = MapPut(@, r.entity, {})],
         entity |-> r.entity]

remove_entity_keeps_tags(ecm, entity) ==
    LET r == EntityManager_remove_entity(ecm.entity_manager, entity)
    IN  [ecm |-> [ecm EXCEPT !.entity_manager = r.em], result |-> r.result]

\* Returns [ecm, result].
EntityComponentManager_remove_entity(ecm, entity) ==
    LET r == EntityManager_remove_entity(ecm.entity_manager, entity)
    IN  [ecm |-> [ecm EXCEPT !.entity_components = MapRemove(@, entity),
                             !.entity_manager = r.em],
         result |-> r.result]

add_component_unchecked(ecm, entity, type_id, component) ==
    LET tagged == [ecm EXCEPT !.entity_components =
                       MapPut(@, entity, (IF entity \in DOMAIN @ THEN @[entity] ELSE {})
                                             \cup {type_id})]
    IN  IF type_id \notin DOMAIN ecm.component_pools
        THEN [ecm |-> [tagged EXCEPT !.component_pools =
                          MapPut(@, type_id, ComponentPool_new_one(entity, component))],
              result |-> "Ok"]
        ELSE [ecm |-> [tagged EXCEPT !.component_pools[type_id] =
                          ComponentPool_set(@, entity, component)],
              result |-> "Ok"]

\* Returns [ecm, result]; result "panic" is the unwrap of a missing tag-set entry
\* or the out-of-bounds index of ComponentPool::new_one, the tag being inserted
\* before the pool is touched.
EntityComponentManager_add_component(ecm, entity, type_id, component) ==
    IF is_dead(ecm.entity_manager, entity)
    THEN [ecm |-> ecm, result |-> "DeadEntity"]
    ELSE IF entity \notin DOMAIN ecm.entity_components
    THEN [ecm |-> ecm, result |-> "panic"]
    ELSE LET tagged == [ecm EXCEPT !.entity_components[entity] = @ \cup {type_id}]
         IN  IF type_id \notin DOMAIN ecm.component_pools
             THEN IF ComponentPool_new_one_panics(entity)
                  THEN [ecm |-> tagged, result |-> "panic"]
                  ELSE [ecm |-> [tagged EXCEPT !.component_pools =
                                    MapPut(@, type_id, ComponentPool_new_one(entity, component))],
                        result |-> "Ok"]
             ELSE [ecm |-> [tagged EXCEPT !.component_pools[type_id] =
                                    ComponentPool_set(@, entity, component)],
                   result |-> "Ok"]

remove_component_pool_check_first(ecm, entity, type_id) ==
    IF type_id \notin DOMAIN ecm.component_pools
    THEN [ecm |-> ecm, result |-> "NoSuchComponent"]
    ELSE IF is_dead(ecm.entity_manager, entity)
    THEN [ecm |-> ecm, result |-> "DeadEntity"]
    ELSE [ecm |-> [ecm EXCEPT !.entity_components[entity] = @ \ {type_id},
                              !.component_pools[type_id] = ComponentPool_remove(@, entity)],
          result |-> "Ok"]

\* Returns [ecm, result]; the tag is removed before the pool is looked up.
EntityComponentManager_remove_component(ecm, entity, type_id) ==
    IF is_dead(ecm.entity_manager, entity)
    THEN [ecm |-> ecm, result |-> "DeadEntity"]
    ELSE IF entity \notin DOMAIN ecm.entity_components
    THEN [ecm |-> ecm, result |-> "panic"]
    ELSE LET untagged == [ecm EXCEPT !.entity_components[entity] = @ \ {type_id}]
         IN  IF type_id \notin DOMAIN ecm.component_pools
             THEN [ecm |-> untagged, result |-> "NoSuchComponent"]
             ELSE [ecm |-> [untagged EXCEPT !.component_pools[type_id] =
                                    ComponentPool_remove(@, entity)],
                   result |-> "Ok"]

get_component_missing_pool_is_none(ecm, entity, type_id) ==
    IF is_dead(ecm.entity_manager, entity)
    THEN [result |-> "DeadEntity", value |-> None]
    ELSE IF type_id \notin DOMAIN ecm.component_pools
    THEN [result |-> "Ok", value |-> None]
    ELSE [result |-> "Ok", value |-> ComponentPool_get(ecm.component_pools[type_id], entity)]

\* get_component and get_component_mut: returns [result, value], value being the
\* Option inside Ok.
EntityComponentManager_get_component(ecm, entity, type_id) ==
    IF is_dead(ecm.entity_manager, entity)
    THEN [result |-> "DeadEntity", value |-> None]
    ELSE IF type_id \notin DOMAIN ecm.component_pools
    THEN [result |-> "NoSuchComponent", value |-> None]
    ELSE [result |-> "Ok", value |-> ComponentPool_get(ecm.component_pools[type_id], entity)]

\* The write a caller makes through the &mut T that get_component_mut returned.
write_through(ecm, entity, type_id, component) ==
    [ecm EXCEPT !.component_pools[type_id][entity.id + 1][2] = component]

\* has_components unwraps the tag-set entry: it panics when there is none.
has_components_panics(ecm, entity) == entity \notin DOMAIN ecm.entity_components

has_components(ecm, entity) == ecm.entity_components[entity]

-----------------------------------------------------------------------------
(* SystemBase: a system is [required_components, entities]; CameraFocusSystem *)
(* is [required_components, entity], with entity: Option<Entity> and NoEntity *)
(* for Option::None                                                           *)

CameraFocusSystem_new ==
    [required_components |-> required_components("CameraFocusSystem"), entity |-> NoEntity]

CameraFocusSystem_add_entity(system, entity) == [system EXCEPT !.entity = entity]

CameraFocusSystem_remove_entity(system, entity) ==
    IF system.entity = entity THEN [system EXCEPT !.entity = NoEntity] ELSE system

\* The system is a CameraFocusSystem (the dynamic type behind Box<dyn SystemBase>).
is_camera_focus_system(system) == "entity" \in DOMAIN system

System_new(s) ==
    IF s = "CameraFocusSystem"
    THEN CameraFocusSystem_new
    ELSE [required_components |-> required_components(s), entities |-> {}]

add_entity(system, entity) ==
    IF is_camera_focus_system(system)
    THEN CameraFocusSystem_add_entity(system, entity)
    ELSE [system EXCEPT !.entities = @ \cup {entity}]

remove_entity(system, entity) ==
    IF is_camera_focus_system(system)
    THEN CameraFocusSystem_remove_entity(system, entity)
    ELSE [system EXCEPT !.entities = @ \ {entity}]

-----------------------------------------------------------------------------
(* Registry: [ec_manager, systems]; every operator returns the registry      *)
(* afterwards as reg, with the value the method returns.                     *)

Registry_new == [ec_manager |-> EntityComponentManager_new, systems |-> EmptyMap]

Registry_create_entity(reg) ==
    LET r == EntityComponentManager_create_entity(reg.ec_manager)
    IN  [reg |-> [reg EXCEPT !.ec_manager = r.ecm], entity |-> r.entity]

remove_entity_keeps_interest(reg, entity) ==
    LET r == EntityComponentManager_remove_entity(reg.ec_manager, entity)
    IN  [reg |-> [reg EXCEPT !.ec_manager = r.ecm], result |-> r.result]

Registry_remove_entity(reg, entity) ==
    LET dropped == [s \in DOMAIN reg.systems |-> remove_entity(reg.systems[s], entity)]
        r == EntityComponentManager_remove_entity(reg.ec_manager, entity)
    IN  [reg |-> [ec_manager |-> r.ecm, systems |-> dropped], result |-> r.result]

add_component_without_interest_update(reg, entity, type_id, component) ==
    LET r == EntityComponentManager_add_component(reg.ec_manager, entity, type_id, component)
    IN  [reg |-> [reg EXCEPT !.ec_manager = r.ecm], result |-> r.result]

Registry_add_component(reg, entity, type_id, component) ==
    LET r == EntityComponentManager_add_component(reg.ec_manager, entity, type_id, component)
    IN  IF r.result = "Ok"
        THEN IF has_components_panics(r.ecm, entity)
             THEN [reg |-> [reg EXCEPT !.ec_manager = r.ecm], result |-> "panic"]
             ELSE [reg |-> [ec_manager |-> r.ecm,
                            systems |-> [s \in DOMAIN reg.systems |->
                                IF is_superset(has_components(r.ecm, entity),
                                               reg.systems[s].required_components)
                                THEN add_entity(reg.systems[s], entity)
                                ELSE reg.systems[s]]],
                   result |-> "Ok"]
        ELSE [reg |-> [reg EXCEPT !.ec_manager = r.ecm], result |-> r.result]

Registry_remove_component(reg, entity, type_id) ==
    LET r == EntityComponentManager_remove_component(reg.ec_manager, entity, type_id)
    IN  IF r.result = "Ok"
        THEN IF has_components_panics(r.ecm, entity)
             THEN [reg |-> [reg EXCEPT !.ec_manager = r.ecm], result |-> "panic"]
             ELSE [reg |-> [ec_manager |-> r.ecm,
                            systems |-> [s \in DOMAIN reg.systems |->
                                IF ~is_superset(has_components(r.ecm, entity),
                                                reg.systems[s].required_components)
                                THEN remove_entity(reg.systems[s], entity)
                                ELSE reg.systems[s]]],
                   result |-> "Ok"]
        ELSE [reg |-> [reg EXCEPT !.ec_manager = r.ecm], result |-> r.result]

add_system_without_scan(reg, s) == [reg EXCEPT !.systems = MapPut(@, s, System_new(s))]

\* The scan of entities_and_components, then systems.insert.
Registry_add_system(reg, s) ==
    LET system == [System_new(s) EXCEPT !.entities =
                      {e \in DOMAIN reg.ec_manager.entity_components :
                          is_superset(reg.ec_manager.entity_components[e],
                                      required_components(s))}]
    IN  [reg EXCEPT !.systems = MapPut(@, s, system)]

remove_system_clears_all(reg, s) == [reg EXCEPT !.systems = EmptyMap]

Registry_remove_system(reg, s) == [reg EXCEPT !.systems = MapRemove(@, s)]

reconcile_only_removes(systems, ecm, done) ==
    [s \in DOMAIN systems |->
        [systems[s] EXCEPT !.entities =
            @ \ {e \in done : ~is_superset(has_components(ecm, e),
                                            systems[s].required_components)}]]

reconcile_only_adds(systems, ecm, done) ==
    [s \in DOMAIN systems |->
        [systems[s] EXCEPT !.entities =
            @ \cup {e \in done : is_superset(has_components(ecm, e),
                                              systems[s].required_components)}]]

\* The loop that ends run_system, over the entities in done: add the entity to
\* every system whose required set its tags include, remove it from the others.
reconcile(systems, ecm, done) ==
    [s \in DOMAIN systems |->
        [systems[s] EXCEPT !.entities =
            (@ \ {e \in done : ~is_superset(has_components(ecm, e),
                                            systems[s].required_components)})
            \cup {e \in done : is_superset(has_components(ecm, e),
                                           systems[s].required_components)}]]

-----------------------------------------------------------------------------
(* EventBus: [handlers], a map from an event type to the Vec of the handlers *)
(* subscribed for it                                                         *)

\* TypeId::of::<E>() of the event types the handlers downcast to.
EventTypes == {"CollisionEvent", "PhysicalKey"}
\* The Rc<RefCell<CollisionSystem>> instances that can be subscribed.
Handlers == {"h1", "h2"}
KeyCodes == {"KeyB", "KeyA"}
NoKey == "NoKey"

\* The event values: a CollisionEvent, a PhysicalKey::Code(code).
CollisionEvent(entity_a, entity_b) ==
    [kind |-> "CollisionEvent", entity_a |-> entity_a, entity_b |-> entity_b, code |-> NoKey]

PhysicalKey(code) ==
    [kind |-> "PhysicalKey", entity_a |-> NoEntity, entity_b |-> NoEntity, code |-> code]

NoEvent == [kind |-> NoType, entity_a |-> NoEntity, entity_b |-> NoEntity, code |-> NoKey]

EventBus_new == [handlers |-> EmptyMap]

add_handler_prepends(bus, type_id, handler) ==
    IF type_id \notin DOMAIN bus.handlers
    THEN [bus EXCEPT !.handlers = MapPut(@, type_id, <<handler>>)]
    ELSE [bus EXCEPT !.handlers[type_id] = <<handler>> \o @]

EventBus_add_handler(bus, type_id, handler) ==
    IF type_id \notin DOMAIN bus.handlers
    THEN [bus EXCEPT !.handlers = MapPut(@, type_id, <<handler>>)]
    ELSE [bus EXCEPT !.handlers[type_id] = Append(@, handler)]

dispatch_handlers_of_any_type(bus, type_id) ==
    IF type_id \in DOMAIN bus.handlers
    THEN bus.handlers[type_id]
    ELSE IF DOMAIN bus.handlers # {}
    THEN bus.handlers[CHOOSE t \in DOMAIN bus.handlers : TRUE]
    ELSE <<>>

\* EventBus::dispatch: the handlers its loop visits, in order; none when the
\* map has no entry for type_id.
EventBus_dispatch_handlers(bus, type_id) ==
    IF type_id \in DOMAIN bus.handlers THEN bus.handlers[type_id] ELSE <<>>

-----------------------------------------------------------------------------
(* RigidBodyComponent {position, velocity} and CollisionComponent {offset,   *)
(* width_height}; a glam::Vec2 is a pair <<x, y>> of f32. A component value  *)
(* is held in its pool as the positive integer that codes its fields, None   *)
(* being 0.                                                                  *)

\* position.x is below 2^25, position.y within 0..3, the velocity's fields 0 or 1.
RigidBodyComponent(position, velocity) ==
    1 + velocity[1] + 2 * velocity[2] + 4 * position[2] + 16 * position[1]

position_of(rigid_body) == <<(rigid_body - 1) \div 16, ((rigid_body - 1) \div 4) % 4>>

velocity_of(rigid_body) == <<(rigid_body - 1) % 2, ((rigid_body - 1) \div 2) % 2>>

\* The fields of offset are 0 or 1, those of width_height within 0..3.
CollisionComponent(offset, width_height) ==
    1 + offset[1] + 2 * offset[2] + 4 * width_height[1] + 16 * width_height[2]

offset_of(collision) == <<(collision - 1) % 2, ((collision - 1) \div 2) % 2>>

width_height_of(collision) == <<((collision - 1) \div 4) % 4, (collision - 1) \div 16>>

\* Every integer of magnitude up to 2^24 is an f32.
f32_exact_limit == 2^24

\* The f32 nearest to the integer x, ties to the even mantissa; between 2^24
\* and 2^25 the f32 values are the even integers (the model's values stay
\* below 2^25).
f32_round(x) ==
    LET a == IF x < 0 THEN -x ELSE x
        r == IF a <= f32_exact_limit THEN a
             ELSE IF a % 2 = 0 THEN a
             ELSE IF (a + 1) % 4 = 0 THEN a + 1
             ELSE a - 1
    IN  IF x < 0 THEN -r ELSE r

\* Vec2 + Vec2 and Vec2 * f32, componentwise in f32.
Vec2_add(a, b) == <<f32_round(a[1] + b[1]), f32_round(a[2] + b[2])>>

Vec2_mul(a, k) == <<f32_round(a[1] * k), f32_round(a[2] * k)>>

integrate_velocity_only(rigid_body, delta_time) ==
    RigidBodyComponent(Vec2_mul(velocity_of(rigid_body), delta_time), velocity_of(rigid_body))

\* position += velocity * delta_time
integrate(rigid_body, delta_time) ==
    RigidBodyComponent(
        Vec2_add(position_of(rigid_body), Vec2_mul(velocity_of(rigid_body), delta_time)),
        velocity_of(rigid_body))

\* MovementSystem::run over the entities whose get_component_mut succeeds: the
\* pool slots of the entities hold the integrated values afterwards.
MovementSystem_run(ecm, entities, delta_time) ==
    [ecm EXCEPT !.component_pools["RigidBodyComponent"] =
        [i \in 1..Len(@) |->
            IF \E e \in entities : e.id + 1 = i
            THEN <<@[i][1], integrate(@[i][2], delta_time)>>
            ELSE @[i]]]

\* Vec2 - Vec2, Vec2 / 2.0 (exact in f32; the model's viewport sizes are even),
\* Vec2::max and Vec2::min, componentwise.
Vec2_sub(a, b) == <<f32_round(a[1] - b[1]), f32_round(a[2] - b[2])>>

Vec2_half(a) == <<a[1] \div 2, a[2] \div 2>>

Vec2_max(a, b) == <<IF a[1] >= b[1] THEN a[1] ELSE b[1], IF a[2] >= b[2] THEN a[2] ELSE b[2]>>

Vec2_min(a, b) == <<IF a[1] <= b[1] THEN a[1] ELSE b[1], IF a[2] <= b[2] THEN a[2] ELSE b[2]>>

Vec2_ZERO == <<0, 0>>

camera_centred_unclamped(position, camera_focus) ==
    [top_left |-> Vec2_sub(Vec2_add(position, camera_focus.focus_offset),
                           Vec2_half(camera_focus.viewport_size)),
     width_height |-> camera_focus.viewport_size]

\* The Camera CameraFocusSystem::run hands to renderer.set_camera, for the
\* tracked entity's position and its CameraFocusComponent
\* [focus_offset, viewport_size, map_top_left, map_bottom_right].
CameraFocusSystem_camera(position, camera_focus) ==
    LET focus == Vec2_add(position, camera_focus.focus_offset)
        focus_top_left == Vec2_sub(focus, Vec2_half(camera_focus.viewport_size))
        focus_top_left_out_of_bounds ==
            Vec2_max(Vec2_sub(camera_focus.map_top_left, focus_top_left), Vec2_ZERO)
        focus_bottom_right == Vec2_add(focus, Vec2_half(camera_focus.viewport_size))
        focus_bottom_right_out_of_bounds ==
            Vec2_min(Vec2_sub(camera_focus.map_bottom_right, focus_bottom_right), Vec2_ZERO)
    IN  [top_left |-> Vec2_add(Vec2_add(focus_top_left, focus_top_left_out_of_bounds),
                               focus_bottom_right_out_of_bounds),
         width_height |-> camera_focus.viewport_size]

\* get_component_mut(entity).unwrap().unwrap() panics on Err and on Ok(None).
unwrap_panics(r) == r.result # "Ok" \/ r.value = None

range_intersects_open(a0, a1, b0, b1) ==
    (a0 < b0 /\ b0 < a1) \/ (a0 < b1 /\ b1 < a1) \/ (b0 < a0 /\ a0 < b1)

range_intersects(a0, a1, b0, b1) ==
    (a0 <= b0 /\ b0 <= a1) \/ (a0 <= b1 /\ b1 <= a1) \/ (b0 <= a0 /\ a0 <= b1)

collides_with(self, other) ==
    LET x_axis_intersects == range_intersects(self.top_left[1], self.bottom_right[1],
                                              other.top_left[1], other.bottom_right[1])
        y_axis_intersects == range_intersects(self.top_left[2], self.bottom_right[2],
                                              other.top_left[2], other.bottom_right[2])
    IN  x_axis_intersects /\ y_axis_intersects

NoRectangle == [top_left |-> <<0, 0>>, bottom_right |-> <<-1, -1>>]

world_space_collision_rectangle(rigid_body, collision) ==
    [top_left |-> Vec2_add(position_of(rigid_body), offset_of(collision)),
     bottom_right |-> Vec2_add(Vec2_add(position_of(rigid_body), offset_of(collision)),
                               width_height_of(collision))]

\* The rectangle CollisionSystem::run builds for a live entity of its interest set.
rectangle_of(ecm, entity) ==
    world_space_collision_rectangle(
        EntityComponentManager_get_component(ecm, entity, "RigidBodyComponent").value,
        EntityComponentManager_get_component(ecm, entity, "CollisionComponent").value)

\* The two unwraps of get_component on entity in CollisionSystem::run.
rectangle_panics(ecm, entity) ==
    \/ unwrap_panics(EntityComponentManager_get_component(ecm, entity, "RigidBodyComponent"))
    \/ unwrap_panics(EntityComponentManager_get_component(ecm, entity, "CollisionComponent"))

wrapper_remove_entity_unrecorded(ecm, changed, entity) ==
    LET r == EntityComponentManager_remove_entity(ecm, entity)
    IN  [ecm |-> r.ecm, changed |-> changed, result |-> r.result]

wrapper_remove_entity_records_only(ecm, changed, entity) ==
    [ecm |-> ecm, changed |-> changed \cup {entity}, result |-> "Ok"]

\* EntityComponentWrapper::remove_entity: [ecm, changed, result]
Wrapper_remove_entity(ecm, changed, entity) ==
    LET r == EntityComponentManager_remove_entity(ecm, entity)
    IN  [ecm |-> r.ecm, changed |-> changed \cup {entity}, result |-> r.result]

-----------------------------------------------------------------------------
(* State *)

VARIABLES
    registry,          \* the Registry: [ec_manager, systems]
    running,           \* the system type whose run is executing inside run_system, or NoSystem
    changed_entities,  \* EntityComponentWrapper.changed_entities of the run in progress
    view_ops,          \* mutating view calls made by the run in progress
    panicked,          \* the method that panicked and unwound the program, or NoPanic
    issued,            \* every handle create_entity has returned (what callers can hold)
    removed,           \* the handles for which remove_entity has returned Ok
    last_removed,      \* the handle whose removal was the last allocator operation, or NoEntity
    view_removed,      \* the handles removed through the view by the run in progress
    last_run,          \* the run in progress, or the last one that returned: its system,
                       \* the handles it created and the handles it touched through the view
    event_bus,         \* the EventBus: [handlers]
    subscribed,        \* the add_handler calls made so far, in order: <<type_id, handler>>
    dispatch,          \* the EventBus::dispatch call in progress, or the last one
    render_collision_boxes,  \* CollisionSystem.render_collision_boxes of each handler
    system_run,        \* the position of MovementSystem::run or CollisionSystem::run
                       \* inside the run in progress, with its locals
    integrated,        \* per entity MovementSystem::run has moved: the value it started
                       \* from, the delta_times since, the value the last run left
    steps,             \* the number of calls made so far
    evaluation         \* the pure function being applied to arguments of its own, with
                       \* the arguments and the value it returned; NoEvaluation otherwise

vars == <<registry, running, changed_entities, view_ops, panicked,
          issued, removed, last_removed, view_removed, last_run,
          event_bus, subscribed, dispatch, render_collision_boxes,
          system_run, integrated, steps, evaluation>>

bus_vars == <<event_bus, subscribed, dispatch, render_collision_boxes>>

domain_vars == <<bus_vars, system_run, integrated, evaluation>>

\* Every variable but evaluation.
program_vars == <<registry, running, changed_entities, view_ops, panicked,
                  issued, removed, last_removed, view_removed, last_run,
                  bus_vars, system_run, integrated, steps>>

\* One more call, while the behaviour has room for it.
Step(max) == steps < max /\ steps' = steps + 1

NoPanic == "NoPanic"

NoRun == [system |-> NoSystem, created |-> {}, changed |-> {}]

\* handled and completed list the handlers called and returned so far;
\* subscriptions is Len(subscribed) at the call.
NoDispatch ==
    [type_id |-> NoType, event |-> NoEvent, handlers |-> <<>>, next |-> 0,
     pc |-> "call", handled |-> <<>>, completed |-> <<>>, subscriptions |-> 0]

\* No EventBus::dispatch call is on the stack.
NotDispatching == dispatch.next = 0

NoSystemRun ==
    [pc |-> "none", delta_time |-> 0, before |-> EntityComponentManager_new,
     entities |-> <<>>, a_index |-> 0, b_index |-> 0, rectangle_a |-> NoRectangle]

\* The method returns result; a panic inside it is recorded under its name.
Returns(method, result) ==
    panicked' = IF result = "panic" THEN method ELSE NoPanic

Idle == running = NoSystem /\ panicked = NoPanic

InRun == running # NoSystem /\ panicked = NoPanic

ECM == registry.ec_manager

EM == registry.ec_manager.entity_manager

\* The callers only pass handles that create_entity returned (Entity's fields are
\* private), and stop removing live entities after MaxRemovals removals.
MayRemove(e) == is_dead(EM, e) \/ Cardinality(removed) < MaxRemovals

NoEvaluation == [pc |-> "none"]

\* The program's objects as their constructors leave them.
Constructed ==
    /\ registry = Registry_new
    /\ running = NoSystem
    /\ changed_entities = {}
    /\ view_ops = 0
    /\ panicked = NoPanic
    /\ issued = {}
    /\ removed = {}
    /\ last_removed = NoEntity
    /\ view_removed = {}
    /\ last_run = NoRun
    /\ event_bus = EventBus_new
    /\ subscribed = <<>>
    /\ dispatch = NoDispatch
    /\ render_collision_boxes = [h \in Handlers |-> FALSE]
    /\ system_run = NoSystemRun
    /\ integrated = EmptyMap
    /\ steps = 0

Init == Constructed /\ evaluation = NoEvaluation

-----------------------------------------------------------------------------
(* Registry methods called by the application *)

CreateEntityUpTo(max, max_steps) ==
    /\ Idle
    /\ Step(max_steps)
    /\ EM.free_entity_ids # <<>> \/ EM.next_entity_id < max
    /\ LET r == Registry_create_entity(registry)
       IN  /\ registry' = r.reg
           /\ issued' = issued \cup {r.entity}
           /\ last_removed' = NoEntity
    /\ UNCHANGED <<running, changed_entities, view_ops, panicked, removed, view_removed, last_run, domain_vars>>

CreateEntity == CreateEntityUpTo(MaxEntities, MaxSteps)

RemoveEntity(e) ==
    /\ Idle
    /\ Step(MaxSteps)
    /\ MayRemove(e)
    /\ LET r == Registry_remove_entity(registry, e)
       IN  /\ registry' = r.reg
           /\ removed' = IF r.result = "Ok" THEN removed \cup {e} ELSE removed
           /\ last_removed' = IF r.result = "Ok" THEN e ELSE last_removed
    /\ UNCHANGED <<running, changed_entities, view_ops, panicked, issued, view_removed, last_run, domain_vars>>

AddComponentWithin(e, t, v, max_steps) ==
    /\ Idle
    /\ Step(max_steps)
    /\ LET r == Registry_add_component(registry, e, t, v)
       IN  /\ registry' = r.reg
           /\ Returns("add_component", r.result)
    /\ UNCHANGED <<running, changed_entities, view_ops, issued, removed, last_removed,
                   view_removed, last_run, domain_vars>>

RemoveComponent(e, t) ==
    /\ Idle
    /\ Step(MaxSteps)
    /\ LET r == Registry_remove_component(registry, e, t)
       IN  /\ registry' = r.reg
           /\ Returns("remove_component", r.result)
    /\ UNCHANGED <<running, changed_entities, view_ops, issued, removed, last_removed,
                   view_removed, last_run, domain_vars>>

AddComponent(e, t, v) == AddComponentWithin(e, t, v, MaxSteps)

\* get_component_mut, the caller then storing w through the reference it got.
GetComponentMut(e, t, w) ==
    /\ Idle
    /\ Step(MaxSteps)
    /\ LET r == EntityComponentManager_get_component(ECM, e, t)
       IN  /\ r.result = "Ok" /\ r.value # None
           /\ registry' = [registry EXCEPT !.ec_manager = write_through(@, e, t, w)]
    /\ UNCHANGED <<running, changed_entities, view_ops, panicked, issued, removed,
                   last_removed, view_removed, last_run, domain_vars>>

AddSystemWithin(s, max_steps) ==
    /\ Idle
    /\ Step(max_steps)
    /\ registry' = Registry_add_system(registry, s)
    /\ UNCHANGED <<running, changed_entities, view_ops, panicked, issued, removed,
                   last_removed, view_removed, last_run, domain_vars>>

AddSystem(s) == AddSystemWithin(s, MaxSteps)

RemoveSystem(s) ==
    /\ Idle
    /\ Step(MaxSteps)
    /\ registry' = Registry_remove_system(registry, s)
    /\ UNCHANGED <<running, changed_entities, view_ops, panicked, issued, removed,
                   last_removed, view_removed, last_run, domain_vars>>

run_system_entry_ignores_registration(reg, s) ==
    [reg |-> reg, result |-> "run", run |-> s]

\* run_system::<S> up to the call of system.run: a fresh wrapper and the lookup
\* of S. Returns [reg |-> the registry afterwards, result |-> "NoSuchSystem",
\* or "run" when S's run is called next, run |-> the system whose run is called].
Registry_run_system_entry(reg, s) ==
    IF s \notin DOMAIN reg.systems
    THEN [reg |-> reg, result |-> "NoSuchSystem", run |-> NoSystem]
    ELSE [reg |-> reg, result |-> "run", run |-> s]

\* The call of run_system::<S>: with no S registered it returns NoSuchSystem,
\* otherwise S's run starts on a fresh wrapper.
RunSystemBeginWithin(s, max_steps) ==
    /\ Idle
    /\ Step(max_steps)
    /\ LET r == Registry_run_system_entry(registry, s)
       IN  /\ registry' = r.reg
           /\ running' = r.run
           /\ last_run' = IF r.result = "run"
                          THEN [system |-> s, created |-> {}, changed |-> {}]
                          ELSE last_run
           /\ system_run' = IF r.result = "run" THEN NoSystemRun ELSE system_run
    /\ UNCHANGED <<changed_entities, view_ops, panicked, issued, removed,
                   last_removed, view_removed, bus_vars, integrated, evaluation>>

RunSystemBegin(s) == RunSystemBeginWithin(s, MaxSteps)

-----------------------------------------------------------------------------
(* EntityComponentWrapper methods called by the running system's run; a run  *)
(* is any sequence of these calls (System::run is implemented by the user).  *)

ViewCreateEntity ==
    /\ InRun
    /\ Step(MaxSteps)
    /\ view_ops < MaxViewOps
    /\ EM.free_entity_ids # <<>> \/ EM.next_entity_id < MaxEntities
    /\ LET r == EntityComponentManager_create_entity(ECM)
       IN  /\ registry' = [registry EXCEPT !.ec_manager = r.ecm]
           /\ changed_entities' = changed_entities \cup {r.entity}
           /\ issued' = issued \cup {r.entity}
           /\ last_removed' = NoEntity
           /\ last_run' = [last_run EXCEPT !.created = @ \cup {r.entity},
                                            !.changed = @ \cup {r.entity}]
    /\ view_ops' = view_ops + 1
    /\ UNCHANGED <<running, panicked, removed, view_removed, domain_vars>>

ViewRemoveEntity(e) ==
    /\ InRun
    /\ Step(MaxSteps)
    /\ view_ops < MaxViewOps
    /\ MayRemove(e)
    /\ last_run' = [last_run EXCEPT !.changed = @ \cup {e}]
    /\ LET r == Wrapper_remove_entity(ECM, changed_entities, e)
       IN  /\ registry' = [registry EXCEPT !.ec_manager = r.ecm]
           /\ changed_entities' = r.changed
           /\ removed' = IF r.result = "Ok" THEN removed \cup {e} ELSE removed
           /\ view_removed' = IF r.result = "Ok" THEN view_removed \cup {e}
                              ELSE view_removed
           /\ last_removed' = IF r.result = "Ok" THEN e ELSE last_removed
    /\ view_ops' = view_ops + 1
    /\ UNCHANGED <<running, panicked, issued, domain_vars>>

ViewAddComponent(e, t, v) ==
    /\ InRun
    /\ Step(MaxSteps)
    /\ view_ops < MaxViewOps
    /\ changed_entities' = changed_entities \cup {e}
    /\ last_run' = [last_run EXCEPT !.changed = @ \cup {e}]
    /\ LET r == EntityComponentManager_add_component(ECM, e, t, v)
       IN  /\ registry' = [registry EXCEPT !.ec_manager = r.ecm]
           /\ Returns("add_component", r.result)
    /\ view_ops' = view_ops + 1
    /\ UNCHANGED <<running, issued, removed, last_removed, view_removed, domain_vars>>

ViewRemoveComponent(e, t) ==
    /\ InRun
    /\ Step(MaxSteps)
    /\ view_ops < MaxViewOps
    /\ changed_entities' = changed_entities \cup {e}
    /\ last_run' = [last_run EXCEPT !.changed = @ \cup {e}]
    /\ LET r == EntityComponentManager_remove_component(ECM, e, t)
       IN  /\ registry' = [registry EXCEPT !.ec_manager = r.ecm]
           /\ Returns("remove_component", r.result)
    /\ view_ops' = view_ops + 1
    /\ UNCHANGED <<running, issued, removed, last_removed, view_removed, domain_vars>>

ViewGetComponentMut(e, t, w) ==
    /\ InRun
    /\ Step(MaxSteps)
    /\ LET r == EntityComponentManager_get_component(ECM, e, t)
       IN  /\ r.result = "Ok" /\ r.value # None
           /\ registry' = [registry EXCEPT !.ec_manager = write_through(@, e, t, w)]
    /\ UNCHANGED <<running, changed_entities, view_ops, panicked, issued, removed,
                   last_removed, view_removed, last_run, domain_vars>>

\* run returns and run_system reconciles the changed entities, in the order the
\* HashSet yields them; has_components panics at the first one that has no
\* tag-set entry, the entities in done having been reconciled before it.
RunSystemReturnWithin(max_steps) ==
    /\ InRun
    /\ NotDispatching
    /\ Step(max_steps)
    /\ LET gone == {e \in changed_entities : has_components_panics(ECM, e)}
       IN  IF gone = {}
           THEN /\ registry' = [registry EXCEPT !.systems =
                                    reconcile(@, ECM, changed_entities)]
                /\ Returns("run_system", "Ok")
           ELSE \E done \in SUBSET (changed_entities \ gone) :
                /\ registry' = [registry EXCEPT !.systems = reconcile(@, ECM, done)]
                /\ Returns("run_system", "panic")
    /\ running' = NoSystem
    /\ changed_entities' = {}
    /\ view_ops' = 0
    /\ view_removed' = {}
    /\ UNCHANGED <<issued, removed, last_removed, last_run, domain_vars>>

RunSystemReturn == RunSystemReturnWithin(MaxSteps)

-----------------------------------------------------------------------------
(* EventBus methods, and the handlers a dispatch calls *)

AddHandlerWithin(type_id, handler, max_steps) ==
    /\ panicked = NoPanic
    /\ NotDispatching
    /\ Step(max_steps)
    /\ Len(subscribed) < MaxSubscriptions
    /\ event_bus' = EventBus_add_handler(event_bus, type_id, handler)
    /\ subscribed' = Append(subscribed, <<type_id, handler>>)
    /\ UNCHANGED <<registry, running, changed_entities, view_ops, panicked, issued, removed,
                   last_removed, view_removed, last_run, dispatch, render_collision_boxes,
                   system_run, integrated, evaluation>>

AddHandler(type_id, handler) == AddHandlerWithin(type_id, handler, MaxSteps)

\* EventBus::dispatch up to its loop: the Vec of type_id is borrowed, the first
\* handler is called next; with no entry the call returns at once.
EventBus_dispatch_entry(bus, type_id, event) ==
    LET handlers == EventBus_dispatch_handlers(bus, type_id)
    IN  [type_id |-> type_id, event |-> event, handlers |-> handlers,
         next |-> IF handlers = <<>> THEN 0 ELSE 1,
         pc |-> "call", handled |-> <<>>, completed |-> <<>>, subscriptions |-> 0]

\* A running system calls dispatch with the wrapper it was given.
Dispatch(type_id, event) ==
    /\ InRun
    /\ running # "CollisionSystem"
    /\ NotDispatching
    /\ Step(MaxSteps)
    /\ dispatch' = [EventBus_dispatch_entry(event_bus, type_id, event)
                        EXCEPT !.subscriptions = Len(subscribed)]
    /\ UNCHANGED <<registry, running, changed_entities, view_ops, panicked, issued, removed,
                   last_removed, view_removed, last_run, event_bus, subscribed,
                   render_collision_boxes, system_run, integrated, evaluation>>

\* The handler called last returns to the loop of dispatch.
handler_returns(d) ==
    [d EXCEPT !.completed = Append(@, d.handlers[d.next]),
              !.pc = "call",
              !.next = IF d.next = Len(d.handlers) THEN 0 ELSE d.next + 1]

\* The bookkeeping of a remove_entity made by a handler through the wrapper.
HandlerRemoved(entity, result) ==
    /\ removed' = IF result = "Ok" THEN removed \cup {entity} ELSE removed
    /\ view_removed' = IF result = "Ok" THEN view_removed \cup {entity} ELSE view_removed
    /\ last_removed' = IF result = "Ok" THEN entity ELSE last_removed
    /\ last_run' = [last_run EXCEPT !.changed = @ \cup {entity}]

\* The second entity Handler<CollisionEvent>::handle removes.
handler_second_removal(event) == event.entity_b

\* handle_any of the next handler: on a CollisionEvent, handle removes entity_a
\* and unwraps the result; on a PhysicalKey, handle toggles the flag for KeyB
\* and returns; any other event returns at once.
HandlerCall ==
    /\ InRun
    /\ dispatch.next > 0
    /\ dispatch.pc = "call"
    /\ LET handler == dispatch.handlers[dispatch.next]
           event == dispatch.event
           called == [dispatch EXCEPT !.handled = Append(@, handler)]
       IN  IF event.kind = "CollisionEvent"
           THEN LET r == Wrapper_remove_entity(ECM, changed_entities, event.entity_a)
                IN  /\ registry' = [registry EXCEPT !.ec_manager = r.ecm]
                    /\ changed_entities' = r.changed
                    /\ HandlerRemoved(event.entity_a, r.result)
                    /\ Returns("handle", IF r.result = "Ok" THEN "Ok" ELSE "panic")
                    /\ dispatch' = [called EXCEPT !.pc = "removed_a"]
                    /\ UNCHANGED render_collision_boxes
           ELSE /\ render_collision_boxes' =
                       IF event.kind = "PhysicalKey" /\ event.code = "KeyB"
                       THEN [render_collision_boxes EXCEPT ![handler] = ~@]
                       ELSE render_collision_boxes
                /\ dispatch' = handler_returns(called)
                /\ UNCHANGED <<registry, changed_entities, panicked, removed, view_removed,
                               last_removed, last_run>>
    /\ UNCHANGED <<running, view_ops, issued, event_bus, subscribed, system_run,
                   integrated, steps, evaluation>>

\* Handler<CollisionEvent>::handle goes on: it removes entity_b, unwraps the
\* result and returns.
HandlerReturn ==
    /\ InRun
    /\ dispatch.next > 0
    /\ dispatch.pc = "removed_a"
    /\ LET entity == handler_second_removal(dispatch.event)
           r == Wrapper_remove_entity(ECM, changed_entities, entity)
       IN  /\ registry' = [registry EXCEPT !.ec_manager = r.ecm]
           /\ changed_entities' = r.changed
           /\ HandlerRemoved(entity, r.result)
           /\ Returns("handle", IF r.result = "Ok" THEN "Ok" ELSE "panic")
           /\ dispatch' = IF r.result = "Ok" THEN handler_returns(dispatch) ELSE dispatch
    /\ UNCHANGED <<running, view_ops, issued, event_bus, subscribed, render_collision_boxes,
                   system_run, integrated, steps, evaluation>>

-----------------------------------------------------------------------------
(* MovementSystem::run *)

\* The whole loop of run with input delta_time; get_component_mut is unwrapped
\* twice, so the loop panics at the first entity it fails for, the entities in
\* done having been moved before it.
MovementRun(delta_time) ==
    /\ InRun
    /\ running = "MovementSystem"
    /\ system_run.pc = "none"
    /\ LET entities == registry.systems[running].entities
           failing == {e \in entities : unwrap_panics(
                          EntityComponentManager_get_component(ECM, e, "RigidBodyComponent"))}
       IN  \E done \in (IF failing = {} THEN {entities} ELSE SUBSET (entities \ failing)) :
               LET after == MovementSystem_run(ECM, done, delta_time)
                   value(ecm, e) ==
                       EntityComponentManager_get_component(ecm, e, "RigidBodyComponent").value
               IN  /\ registry' = [registry EXCEPT !.ec_manager = after]
                   /\ Returns("run", IF failing = {} THEN "Ok" ELSE "panic")
                   /\ integrated' =
                          [e \in (DOMAIN integrated) \cup done |->
                              IF e \notin done THEN integrated[e]
                              ELSE IF e \in DOMAIN integrated /\ integrated[e].last = value(ECM, e)
                              THEN [integrated[e] EXCEPT !.delta_times = Append(@, delta_time),
                                                         !.last = value(after, e)]
                              ELSE [initial |-> value(ECM, e),
                                    delta_times |-> <<delta_time>>,
                                    last |-> value(after, e)]]
    /\ system_run' = [NoSystemRun EXCEPT !.pc = "done", !.delta_time = delta_time,
                                         !.before = ECM]
    /\ UNCHANGED <<running, changed_entities, view_ops, issued, removed, last_removed,
                   view_removed, last_run, bus_vars, steps, evaluation>>

\* run has returned: run_system goes on to its reconciliation.
MovementReturn == system_run.pc = "done" /\ RunSystemReturn

-----------------------------------------------------------------------------
(* CollisionSystem::run *)

\* The orders in which a HashSet's iterator can yield the set.
Orders(set) ==
    {order \in [1..Cardinality(set) -> set] :
        \A i, j \in 1..Cardinality(set) : order[i] = order[j] => i = j}

\* self.entities.iter().collect()
CollisionRunCollect ==
    /\ InRun
    /\ running = "CollisionSystem"
    /\ system_run.pc = "none"
    /\ \E order \in Orders(registry.systems[running].entities) :
           system_run' = [NoSystemRun EXCEPT !.pc = "outer", !.entities = order,
                                             !.a_index = 1, !.before = ECM]
    /\ UNCHANGED <<registry, running, changed_entities, view_ops, panicked, issued, removed,
                   last_removed, view_removed, last_run, bus_vars, integrated, steps, evaluation>>

\* One iteration of the outer loop up to the inner loop: a dead entity_a is
\* skipped, a live one has its rectangle built from its two components.
CollisionOuter ==
    /\ InRun
    /\ NotDispatching
    /\ system_run.pc = "outer"
    /\ IF system_run.a_index > Len(system_run.entities)
       THEN /\ system_run' = [system_run EXCEPT !.pc = "done"]
            /\ UNCHANGED panicked
       ELSE LET entity_a == system_run.entities[system_run.a_index]
            IN  IF is_dead(EM, entity_a)
                THEN /\ system_run' = [system_run EXCEPT !.a_index = @ + 1]
                     /\ UNCHANGED panicked
                ELSE IF rectangle_panics(ECM, entity_a)
                THEN /\ Returns("run", "panic")
                     /\ UNCHANGED system_run
                ELSE /\ system_run' = [system_run EXCEPT
                                          !.pc = "inner",
                                          !.b_index = system_run.a_index + 1,
                                          !.rectangle_a = rectangle_of(ECM, entity_a)]
                     /\ UNCHANGED panicked
    /\ UNCHANGED <<registry, running, changed_entities, view_ops, issued, removed,
                   last_removed, view_removed, last_run, bus_vars, integrated, steps, evaluation>>

\* EntityComponentWrapper::dispatch_event: the event is dispatched on the bus
\* under its own type.
Wrapper_dispatch_event(bus, event) == EventBus_dispatch_entry(bus, event.kind, event)

\* One iteration of the inner loop: a dead entity_b is skipped, a live one whose
\* rectangle collides with entity_a's has the CollisionEvent dispatched.
CollisionInner ==
    /\ InRun
    /\ NotDispatching
    /\ system_run.pc = "inner"
    /\ IF system_run.b_index > Len(system_run.entities)
       THEN /\ system_run' = [system_run EXCEPT !.pc = "outer", !.a_index = @ + 1]
            /\ UNCHANGED <<panicked, dispatch>>
       ELSE LET entity_a == system_run.entities[system_run.a_index]
                entity_b == system_run.entities[system_run.b_index]
            IN  IF is_dead(EM, entity_b)
                THEN /\ system_run' = [system_run EXCEPT !.b_index = @ + 1]
                     /\ UNCHANGED <<panicked, dispatch>>
                ELSE IF rectangle_panics(ECM, entity_b)
                THEN /\ Returns("run", "panic")
                     /\ UNCHANGED <<system_run, dispatch>>
                ELSE /\ system_run' = [system_run EXCEPT !.b_index = @ + 1]
                     /\ dispatch' =
                            IF collides_with(system_run.rectangle_a, rectangle_of(ECM, entity_b))
                            THEN [Wrapper_dispatch_event(event_bus,
                                                         CollisionEvent(entity_a, entity_b))
                                     EXCEPT !.subscriptions = Len(subscribed)]
                            ELSE dispatch
                     /\ UNCHANGED panicked
    /\ UNCHANGED <<registry, running, changed_entities, view_ops, issued, removed,
                   last_removed, view_removed, last_run, event_bus, subscribed,
                   render_collision_boxes, integrated, steps, evaluation>>

\* run has returned: run_system goes on to its reconciliation.
CollisionReturn == system_run.pc = "done" /\ RunSystemReturnWithin(MaxCollisionSteps)

-----------------------------------------------------------------------------
(* Registry::create_entity and Registry::remove_entity called often enough   *)
(* for a generation to reach GenerationT::MAX                                *)

\* Enough calls to create an id and to remove and reissue it 2^GenerationBits times.
MaxWrapSteps == 2 * (GenerationT_MAX + 1) + 2

CreateEntityWrap == CreateEntityUpTo(MaxEntities, MaxWrapSteps)

\* Registry::remove_entity(e). When the increment overflows, a build with
\* overflow checks panics at it, with the interest sets, the tag index and the
\* free list already updated and the generation as it was; a build without
\* them goes on with the wrapped generation.
RemoveEntityWrap(e) ==
    /\ Idle
    /\ Step(MaxWrapSteps)
    /\ \E overflow_checks \in BOOLEAN :
           LET r == Registry_remove_entity(registry, e)
           IN  IF overflow_checks /\ increment_overflows(EM, e)
               THEN /\ registry' = [r.reg EXCEPT
                                       !.ec_manager.entity_manager.generations = EM.generations]
                    /\ panicked' = "remove_entity"
                    /\ UNCHANGED <<removed, last_removed>>
               ELSE /\ registry' = r.reg
                    /\ removed' = IF r.result = "Ok" THEN removed \cup {e} ELSE removed
                    /\ last_removed' = IF r.result = "Ok" THEN e ELSE last_removed
                    /\ UNCHANGED panicked
    /\ UNCHANGED <<running, changed_entities, view_ops, issued, view_removed, last_run,
                   domain_vars>>

-----------------------------------------------------------------------------
(* Registry::add_system(CameraFocusSystem::new()) *)

\* The component types CameraFocusSystem requires, each with one value.
FocusTypes == required_components("CameraFocusSystem")

\* The scan calls add_entity for every entity whose tags include the required
\* set, in the order entities_and_components (a HashMap) yields them, so the
\* system is inserted tracking the one yielded last.
AddCameraFocusSystem ==
    /\ Idle
    /\ Step(MaxSteps)
    /\ LET scanned == {e \in DOMAIN ECM.entity_components :
                          is_superset(ECM.entity_components[e], FocusTypes)}
           systems == IF scanned = {}
                      THEN {CameraFocusSystem_new}
                      ELSE {CameraFocusSystem_add_entity(CameraFocusSystem_new, last) :
                                last \in scanned}
       IN  \E system \in systems :
               registry' = [registry EXCEPT !.systems = MapPut(@, "CameraFocusSystem", system)]
    /\ UNCHANGED <<running, changed_entities, view_ops, panicked, issued, removed,
                   last_removed, view_removed, last_run, domain_vars>>

-----------------------------------------------------------------------------
(* CameraFocusSystem::run applied to a tracked entity's position and         *)
(* CameraFocusComponent of the caller's choice                               *)

\* f32 coordinates near the origin, and the first ones beyond f32_exact_limit.
NearCoordinates == 0..MaxCameraCoordinate

FarCoordinates == {f32_exact_limit, f32_exact_limit + 2, f32_exact_limit + 4}

CameraPositions == (NearCoordinates \cup FarCoordinates) \X {0, MaxCameraCoordinate \div 2}

CameraFocusComponents ==
    [focus_offset : {<<0, 0>>, <<1, 0>>},
     viewport_size : {<<2, 2>>, <<4, 2>>},
     map_top_left : {<<0, 0>>, <<2, 0>>},
     map_bottom_right : {<<x, 4>> : x \in {4, MaxCameraCoordinate} \cup (FarCoordinates \ {f32_exact_limit})}]

NoCamera == [top_left |-> <<0, 0>>, width_height |-> <<0, 0>>]

CameraArguments ==
    [pc : {"arguments"}, position : CameraPositions, camera_focus : CameraFocusComponents,
     camera : {NoCamera}]

ApplyCameraFocus ==
    /\ evaluation.pc = "arguments"
    /\ evaluation' =
           [evaluation EXCEPT
               !.pc = "set_camera",
               !.camera = CameraFocusSystem_camera(evaluation.position,
                                                   evaluation.camera_focus)]
    /\ UNCHANGED program_vars

-----------------------------------------------------------------------------
(* Rectangle::range_intersects and Rectangle::collides_with applied to two   *)
(* rectangles of the caller's choice                                         *)

Coordinates == 0..MaxCoordinate

\* Every Rectangle value, those with bottom_right before top_left included.
Rectangles ==
    [top_left : Coordinates \X Coordinates, bottom_right : Coordinates \X Coordinates]

\* The arguments chosen, no function applied yet.
RectangleArguments ==
    [pc : {"arguments"}, self : Rectangles, other : Rectangles,
     result : {FALSE}, swapped : {FALSE}]

\* range_intersects on the x ranges of self and other, and on the same two
\* ranges in the other order.
ApplyRangeIntersects ==
    /\ evaluation.pc = "arguments"
    /\ evaluation' =
           [evaluation EXCEPT
               !.pc = "range_intersects",
               !.result = range_intersects(evaluation.self.top_left[1],
                                           evaluation.self.bottom_right[1],
                                           evaluation.other.top_left[1],
                                           evaluation.other.bottom_right[1]),
               !.swapped = range_intersects(evaluation.other.top_left[1],
                                            evaluation.other.bottom_right[1],
                                            evaluation.self.top_left[1],
                                            evaluation.self.bottom_right[1])]
    /\ UNCHANGED program_vars

\* self.collides_with(other), and other.collides_with(self).
ApplyCollidesWith ==
    /\ evaluation.pc = "arguments"
    /\ evaluation' =
           [evaluation EXCEPT
               !.pc = "collides_with",
               !.result = collides_with(evaluation.self, evaluation.other),
               !.swapped = collides_with(evaluation.other, evaluation.self)]
    /\ UNCHANGED program_vars

-----------------------------------------------------------------------------
(* Specifications *)

Next ==
    \/ CreateEntity
    \/ \E e \in issued : RemoveEntity(e)
    \/ \E e \in issued, t \in ComponentTypes : \E v \in Values(t) : AddComponent(e, t, v)
    \/ \E e \in issued, t \in ComponentTypes : RemoveComponent(e, t)
    \/ \E e \in issued, t \in ComponentTypes : \E w \in Values(t) : GetComponentMut(e, t, w)
    \/ \E s \in SystemTypes : AddSystem(s)
    \/ \E s \in SystemTypes : RemoveSystem(s)
    \/ \E s \in SystemTypes : RunSystemBegin(s)
    \/ ViewCreateEntity
    \/ \E e \in issued : ViewRemoveEntity(e)
    \/ \E e \in issued, t \in ComponentTypes : \E v \in Values(t) : ViewAddComponent(e, t, v)
    \/ \E e \in issued, t \in ComponentTypes : ViewRemoveComponent(e, t)
    \/ \E e \in issued, t \in ComponentTypes : \E w \in Values(t) : ViewGetComponentMut(e, t, w)
    \/ RunSystemReturn

Spec == Init /\ [][Next]_vars

\* Pool growth: many live entities, one component type, no systems.
MaxPoolSteps == MaxPoolEntities + 1

CreateEntityPool == CreateEntityUpTo(MaxPoolEntities, MaxPoolSteps)

NextPool ==
    \/ CreateEntityPool
    \/ \E e \in issued : AddComponentWithin(e, "RigidBodyComponent", 1, MaxPoolSteps)

SpecPool == Init /\ [][NextPool]_vars

\* The event bus: subscriptions, and dispatches made by a running system.
Events ==
    {CollisionEvent(a, b) : a \in issued, b \in issued} \cup {PhysicalKey(c) : c \in KeyCodes}

NextBus ==
    \/ CreateEntity
    \/ \E s \in SystemTypes : AddSystem(s)
    \/ \E s \in SystemTypes : RunSystemBegin(s)
    \/ \E type_id \in EventTypes, handler \in Handlers : AddHandler(type_id, handler)
    \/ \E type_id \in EventTypes, event \in Events : Dispatch(type_id, event)
    \/ HandlerCall
    \/ HandlerReturn
    \/ RunSystemReturn

SpecBus == Init /\ [][NextBus]_vars

\* Movement: rigid bodies at the origin and at the last position from which a
\* unit step is still exact in f32, run with whole delta_times.
RigidBodies ==
    {RigidBodyComponent(<<0, 0>>, <<1, 0>>),
     RigidBodyComponent(<<f32_exact_limit - 1, 0>>, <<1, 0>>)}

DeltaTimes == {1, 2}

NextMovement ==
    \/ CreateEntity
    \/ \E e \in issued, rigid_body \in RigidBodies :
           AddComponent(e, "RigidBodyComponent", rigid_body)
    \/ \E e \in issued : AddComponent(e, "KeyboardControlComponent", 1)
    \/ AddSystem("MovementSystem")
    \/ RunSystemBegin("MovementSystem")
    \/ \E delta_time \in DeltaTimes : MovementRun(delta_time)
    \/ MovementReturn

SpecMovement == Init /\ [][NextMovement]_vars

\* Collision: unit boxes at two positions, apart from each other.
CollisionBodies ==
    {RigidBodyComponent(<<0, 0>>, <<0, 0>>),
     RigidBodyComponent(<<2, 2>>, <<0, 0>>)}

CollisionBoxes == {CollisionComponent(<<0, 0>>, <<1, 1>>)}

CreateEntityCollision == CreateEntityUpTo(MaxCollisionEntities, MaxCollisionSteps)

\* The application subscribes the default handler between runs.
SubscribeDefaultHandler ==
    Idle /\ AddHandlerWithin("CollisionEvent", "h1", MaxCollisionSteps)

NextCollision ==
    \/ CreateEntityCollision
    \/ \E e \in issued, rigid_body \in CollisionBodies :
           AddComponentWithin(e, "RigidBodyComponent", rigid_body, MaxCollisionSteps)
    \/ \E e \in issued, collision \in CollisionBoxes :
           AddComponentWithin(e, "CollisionComponent", collision, MaxCollisionSteps)
    \/ AddSystemWithin("CollisionSystem", MaxCollisionSteps)
    \/ SubscribeDefaultHandler
    \/ RunSystemBeginWithin("CollisionSystem", MaxCollisionSteps)
    \/ CollisionRunCollect
    \/ CollisionOuter
    \/ CollisionInner
    \/ HandlerCall
    \/ HandlerReturn
    \/ CollisionReturn

SpecCollision == Init /\ [][NextCollision]_vars

\* The allocator under create and remove alone, for as long as it takes a
\* generation to pass GenerationT::MAX.
NextWrap ==
    \/ CreateEntityWrap
    \/ \E e \in issued : RemoveEntityWrap(e)

SpecWrap == Init /\ [][NextWrap]_vars

\* The Registry with a CameraFocusSystem and the two component types it requires.
NextFocus ==
    \/ CreateEntity
    \/ \E e \in issued : RemoveEntity(e)
    \/ \E e \in issued : \E t \in FocusTypes : AddComponent(e, t, 1)
    \/ \E e \in issued : \E t \in FocusTypes : RemoveComponent(e, t)
    \/ AddCameraFocusSystem

SpecFocus == Init /\ [][NextFocus]_vars

\* The camera computation of CameraFocusSystem::run on every position and
\* CameraFocusComponent of CameraArguments.
InitCameraFocus == Constructed /\ evaluation \in CameraArguments

NextCameraFocus == ApplyCameraFocus

SpecCameraFocus == InitCameraFocus /\ [][NextCameraFocus]_vars

\* Rectangle's two functions on every pair of rectangles.
InitRectangle == Constructed /\ evaluation \in RectangleArguments

NextRectangle ==
    \/ ApplyRangeIntersects
    \/ ApplyCollidesWith

SpecRectangle == InitRectangle /\ [][NextRectangle]_vars

-----------------------------------------------------------------------------
(* Vocabulary of the properties *)

Pools == ECM.component_pools

TagIndex == ECM.entity_components

TagsOf(e) == IF e \in DOMAIN TagIndex THEN TagIndex[e] ELSE {}

Systems == registry.systems

\* { e : e is alive /\ tags(e) is a superset of required(s) }
Qualifying(s) ==
    {e \in issued : is_alive(EM, e) /\ is_superset(TagsOf(e), required_components(s))}

\* The same set in the registry reg, among the handles given.
QualifyingIn(reg, handles, s) ==
    {e \in handles :
        /\ is_alive(reg.ec_manager.entity_manager, e)
        /\ e \in DOMAIN reg.ec_manager.entity_components
        /\ is_superset(reg.ec_manager.entity_components[e], required_components(s))}

\* What entities() and entities_and_components() yield.
Entities(reg) == DOMAIN reg.ec_manager.entity_components

Ok(value) == [result |-> "Ok", value |-> value]

Err(error) == [result |-> error, value |-> None]

-----------------------------------------------------------------------------
(* C1: between calls (no run in progress), every registered system's       *)
(* interest set is exactly the set of live entities whose tags include the *)
(* system's required set, run_system included.                             *)
C1_InterestSetsExact ==
    running = NoSystem =>
        \A s \in DOMAIN Systems : Systems[s].entities = Qualifying(s)

(* C2: a handle whose removal has succeeded is rejected with DeadEntity by *)
(* add_component, get_component, get_component_mut and remove_entity in    *)
(* every later state, also once its id is in use by a new entity; no       *)
(* component value comes back.                                             *)
C2_RemovedHandleRejected ==
    \A e \in removed :
        /\ EntityManager_remove_entity(EM, e).result = "DeadEntity"
        /\ Registry_remove_entity(registry, e).result = "DeadEntity"
        /\ \A t \in ComponentTypes :
            /\ EntityComponentManager_get_component(ECM, e, t) = Err("DeadEntity")
            /\ \A v \in Values(t) :
                /\ EntityComponentManager_add_component(ECM, e, t, v).result = "DeadEntity"
                /\ Registry_add_component(registry, e, t, v).result = "DeadEntity"

\* A removed handle whose id has been reissued to an entity that owns a component.
C2_Witness ==
    \E e \in removed : \E n \in DOMAIN TagIndex :
        /\ n.id = e.id
        /\ \E t \in DOMAIN Pools : ComponentPool_get(Pools[t], n) # None
        /\ \E t \in DOMAIN Pools :
               EntityComponentManager_get_component(ECM, e, t) = Err("DeadEntity")

(* C3: when the run has removed an entity through the view, run_system     *)
(* completes with Ok, and after it the removed entity is dead and in no    *)
(* registered system's interest set.                                       *)
C3_ViewRemovalRunCompletes ==
    [][(InRun /\ view_removed # {} /\ running' = NoSystem) =>
          /\ panicked' = NoPanic
          /\ \A e \in view_removed :
                /\ is_dead(EM', e)
                /\ \A s \in DOMAIN Systems' : e \notin Systems'[s].entities]_vars

(* C4: when create is the next allocator operation after a successful      *)
(* remove(e), the handle created has e's id and generation e.generation+1, *)
(* e is dead and the new handle is alive.                                  *)
C4_CreateAfterRemoveRecycles ==
    [][(last_removed # NoEntity /\ last_removed' = NoEntity) =>
          \E n \in (DOMAIN TagIndex') \ (DOMAIN TagIndex) :
              /\ n.id = last_removed.id
              /\ n.generation = last_removed.generation + 1
              /\ n.generation > last_removed.generation
              /\ is_dead(EM', last_removed)
              /\ is_alive(EM', n)]_vars

\* The last allocator operation created an entity on the id of a removed handle.
C4_Witness ==
    /\ last_removed = NoEntity
    /\ \E e \in removed : \E n \in DOMAIN TagIndex :
           n.id = e.id /\ n.generation = e.generation + 1 /\ is_alive(EM, n)

(* C5: in every step the recorded generation of every id grows by exactly  *)
(* the number of handles of that id removed in the step (1 for a           *)
(* successful remove of that id, 0 for create, a rejected remove and every *)
(* component or system operation), and a removed handle is never alive     *)
(* again.                                                                  *)
C5_GenerationMonotone ==
    [][/\ \A id \in 0..Len(EM'.generations) :
            alive_generation(EM', id) =
                alive_generation(EM, id)
                + Cardinality({e \in removed' \ removed : e.id = id})
       /\ \A e \in removed' : is_dead(EM', e)]_vars

\* An id has gone through two removals and is in use a third time.
C5_Witness ==
    \E n \in DOMAIN TagIndex : n.generation = 2 /\ is_alive(EM, n)

(* C6: remove_entity on a dead handle returns DeadEntity and changes       *)
(* nothing: generations, free list, tag index, pools and interest sets are *)
(* what they were (Registry::remove_entity between runs, the view's        *)
(* remove_entity inside a run).                                            *)
C6_DeadRemoveChangesNothing ==
    \A e \in issued :
        is_dead(EM, e) =>
            /\ Idle => Registry_remove_entity(registry, e) =
                          [reg |-> registry, result |-> "DeadEntity"]
            /\ InRun => EntityComponentManager_remove_entity(ECM, e) =
                          [ecm |-> ECM, result |-> "DeadEntity"]
            /\ EntityManager_remove_entity(EM, e) = [em |-> EM, result |-> "DeadEntity"]

\* Between runs: a dead handle whose id is on the free list, and a live entity in
\* a registered system's interest set.
C6_Witness ==
    /\ Idle
    /\ \E e \in removed : \E i \in 1..Len(EM.free_entity_ids) : EM.free_entity_ids[i] = e.id
    /\ \E s \in DOMAIN Systems : Systems[s].entities # {}

(* C7: an entity created on the id of a removed entity starts with an      *)
(* empty tag set and reads Ok(None) for every component type that has a    *)
(* pool, and a read of it returns a value only once that type has been     *)
(* added to it.                                                            *)
C7_ReusedIdOwnsNothing ==
    [][\A n \in DOMAIN TagIndex' :
          (\E e \in removed' : e.id = n.id) =>
              /\ n \notin DOMAIN TagIndex => TagIndex'[n] = {}
              /\ \A t \in DOMAIN Pools' :
                    LET after == EntityComponentManager_get_component(ECM', n, t)
                    IN  /\ after.result = "Ok"
                        /\ after.value # None =>
                              \/ /\ n \in DOMAIN TagIndex
                                 /\ t \in DOMAIN Pools
                                 /\ ComponentPool_get(Pools[t], n) # None
                              \/ /\ n \in DOMAIN TagIndex
                                 /\ t \in TagIndex'[n] \ TagIndex[n]]_vars

\* A live entity on a reused id reads None from a pool whose slot for that id
\* still holds the removed entity's value.
C7_Witness ==
    \E n \in DOMAIN TagIndex : \E t \in DOMAIN Pools :
        /\ \E e \in removed : e.id = n.id
        /\ Pools[t][n.id + 1][2] # None
        /\ Pools[t][n.id + 1][1] < n.generation
        /\ EntityComponentManager_get_component(ECM, n, t) = Ok(None)

(* C8: for a live entity of any id, add_component of a type that has no    *)
(* pool yet returns Ok and creates the pool, and get_component then        *)
(* returns the value added; it does not abort.                             *)
C8_FirstAddCreatesPool ==
    \A e \in issued : \A t \in ComponentTypes : \A v \in Values(t) :
        (Idle /\ is_alive(EM, e) /\ t \notin DOMAIN Pools) =>
            LET r == Registry_add_component(registry, e, t, v)
            IN  /\ r.result = "Ok"
                /\ t \in DOMAIN r.reg.ec_manager.component_pools
                /\ EntityComponentManager_get_component(r.reg.ec_manager, e, t) = Ok(v)

(* C9: remove_component of a type that has no pool returns NoSuchComponent *)
(* whether the handle is alive or dead.                                    *)
C9_MissingPoolBeforeLiveness ==
    \A e \in issued : \A t \in ComponentTypes :
        t \notin DOMAIN Pools =>
            /\ EntityComponentManager_remove_component(ECM, e, t).result = "NoSuchComponent"
            /\ Registry_remove_component(registry, e, t).result = "NoSuchComponent"

(* C9, amended: remove_component of a type that has no pool returns        *)
(* DeadEntity for a dead handle (the liveness check comes first) and       *)
(* NoSuchComponent for a live one.                                         *)
C9_LivenessBeforeMissingPool ==
    \A e \in issued : \A t \in ComponentTypes :
        t \notin DOMAIN Pools =>
            LET expected == IF is_dead(EM, e) THEN "DeadEntity" ELSE "NoSuchComponent"
            IN  /\ EntityComponentManager_remove_component(ECM, e, t).result = expected
                /\ Registry_remove_component(registry, e, t).result = expected

\* A dead handle and a live one, while some component type has no pool.
C9_Witness ==
    /\ \E e \in removed : \E t \in ComponentTypes :
           /\ t \notin DOMAIN Pools
           /\ EntityComponentManager_remove_component(ECM, e, t).result = "DeadEntity"
    /\ \E n \in DOMAIN TagIndex : \E t \in ComponentTypes :
           /\ t \notin DOMAIN Pools
           /\ EntityComponentManager_remove_component(ECM, n, t).result = "NoSuchComponent"

(* C10: get_component and get_component_mut on a live entity return        *)
(* Ok(None) when the type has no pool, and DeadEntity is the only error    *)
(* they return.                                                            *)
C10_MissingPoolReadsNone ==
    \A e \in issued : \A t \in ComponentTypes :
        LET r == EntityComponentManager_get_component(ECM, e, t)
        IN  /\ r.result \in {"Ok", "DeadEntity"}
            /\ (is_alive(EM, e) /\ t \notin DOMAIN Pools) => r = Ok(None)

(* C10, amended: get_component and get_component_mut on a live entity      *)
(* return the error NoSuchComponent when the type has no pool; DeadEntity  *)
(* (for a dead handle) and NoSuchComponent are the only errors, and a live *)
(* entity reads Ok whenever the pool exists.                               *)
C10_MissingPoolReadsNoSuchComponent ==
    \A e \in issued : \A t \in ComponentTypes :
        LET r == EntityComponentManager_get_component(ECM, e, t)
        IN  /\ r.result \in {"Ok", "DeadEntity", "NoSuchComponent"}
            /\ (is_alive(EM, e) /\ t \notin DOMAIN Pools) => r = Err("NoSuchComponent")
            /\ (is_alive(EM, e) /\ t \in DOMAIN Pools) => r.result = "Ok"
            /\ is_dead(EM, e) => r = Err("DeadEntity")

\* A live entity while one component type has a pool and another has none.
C10_Witness ==
    \E n \in DOMAIN TagIndex : \E t, u \in ComponentTypes :
        /\ is_alive(EM, n)
        /\ t \notin DOMAIN Pools
        /\ u \in DOMAIN Pools
        /\ EntityComponentManager_get_component(ECM, n, t) = Err("NoSuchComponent")
        /\ EntityComponentManager_get_component(ECM, n, u).result = "Ok"

(* C11: add_system(S), called between runs in any state, leaves S           *)
(* registered with an interest set that is exactly the set of live         *)
(* entities whose tags include required(S), whatever the order in which    *)
(* the entities and components were created; the store and the other       *)
(* systems are untouched.                                                  *)
C11_AddSystemBackfills ==
    Idle =>
        \A s \in SystemTypes :
            LET after == Registry_add_system(registry, s)
            IN  /\ s \in DOMAIN after.systems
                /\ after.systems[s].entities = Qualifying(s)
                /\ after.systems[s].required_components = required_components(s)
                /\ after.ec_manager = ECM
                /\ \A u \in (DOMAIN Systems) \ {s} :
                       u \in DOMAIN after.systems /\ after.systems[u] = Systems[u]

\* A system registered with a backfilled interest set, while a live entity that
\* does not qualify and a removed handle exist.
C11_Witness ==
    /\ Idle
    /\ removed # {}
    /\ \E s \in DOMAIN Systems :
           /\ Systems[s].entities # {}
           /\ Systems[s] = Registry_add_system(registry, s).systems[s]
           /\ \E e \in DOMAIN TagIndex : is_alive(EM, e) /\ e \notin Systems[s].entities

(* C12: an entity created through the view during a run of S is in S's      *)
(* interest set at no point of that run, whatever components the run gives *)
(* it; once the run has returned, and for as long as no other run has      *)
(* started (so when the next run_system of S begins), it is in S's         *)
(* interest set if it is alive and its tags include required(S).           *)
C12_ViewCreatedDeferred ==
    /\ InRun =>
           \A e \in last_run.created : e \notin Systems[running].entities
    /\ (Idle /\ last_run.system \in DOMAIN Systems) =>
           \A e \in last_run.created :
               (is_alive(EM, e)
                    /\ is_superset(TagsOf(e), required_components(last_run.system)))
                   => e \in Systems[last_run.system].entities

\* A run of S has returned; an entity it created and gave components satisfies
\* required(S) and is in S's interest set, and another run of S can begin.
C12_Witness ==
    /\ Idle
    /\ steps < MaxSteps
    /\ last_run.system \in DOMAIN Systems
    /\ \E e \in last_run.created :
           /\ is_alive(EM, e)
           /\ is_superset(TagsOf(e), required_components(last_run.system))
           /\ e \in Systems[last_run.system].entities

(* C13: when run_system returns after a run that touched entities through  *)
(* the view (adding or removing their components), every touched entity    *)
(* that is alive is a member of the interest set of every registered       *)
(* system T, the one that ran or another, exactly when its tags include    *)
(* required(T).                                                            *)
C13_RunReconcilesEverySystem ==
    [][(InRun /\ running' = NoSystem /\ panicked' = NoPanic) =>
          \A e \in changed_entities :
              is_alive(EM', e) =>
                  \A T \in DOMAIN Systems' :
                      e \in Systems'[T].entities
                          <=> required_components(T) \subseteq TagsOf(e)']_vars

\* A run of S has returned after touching an entity that existed before it; the
\* entity is in the interest set of another system T and not in that of S.
C13_Witness ==
    /\ Idle
    /\ last_run.system \in DOMAIN Systems
    /\ \E e \in last_run.changed \ last_run.created :
           /\ is_alive(EM, e)
           /\ e \notin Systems[last_run.system].entities
           /\ \E T \in (DOMAIN Systems) \ {last_run.system} :
                  /\ e \in Systems[T].entities
                  /\ required_components(T) \subseteq TagsOf(e)

(* C14: when the run has passed an already dead handle to the view's        *)
(* add_component, remove_component or remove_entity (and removed nothing   *)
(* itself), each such call returns DeadEntity, run_system completes with   *)
(* Ok, and if dead handles are all the run touched no interest set         *)
(* changes.                                                                *)
C14_DeadHandleInRunTolerated ==
    [][(/\ InRun
        /\ running' = NoSystem
        /\ view_removed = {}
        /\ \E e \in changed_entities : is_dead(EM, e)) =>
          /\ \A e \in changed_entities :
                is_dead(EM, e) =>
                    /\ EntityComponentManager_remove_entity(ECM, e).result = "DeadEntity"
                    /\ \A t \in ComponentTypes :
                          /\ EntityComponentManager_remove_component(ECM, e, t).result
                                = "DeadEntity"
                          /\ \A v \in Values(t) :
                                EntityComponentManager_add_component(ECM, e, t, v).result
                                    = "DeadEntity"
          /\ panicked' = NoPanic
          /\ (\A e \in changed_entities : is_dead(EM, e)) => Systems' = Systems]_vars

(* C15: Registry::create_entity, called between runs in any state, returns  *)
(* a handle that is alive, is yielded by entities() and has an empty tag   *)
(* set; it changes no system, the new entity satisfies no registered       *)
(* system, and every registered system's interest set is still exactly the *)
(* set of live entities whose tags include its required set.               *)
C15_CreateNeedsNoInterestUpdate ==
    Idle =>
        LET r == Registry_create_entity(registry)
        IN  /\ r.entity \notin issued
            /\ is_alive(r.reg.ec_manager.entity_manager, r.entity)
            /\ r.entity \in Entities(r.reg)
            /\ r.reg.ec_manager.entity_components[r.entity] = {}
            /\ r.reg.systems = Systems
            /\ \A s \in DOMAIN r.reg.systems :
                   /\ ~(required_components(s) \subseteq {})
                   /\ r.entity \notin r.reg.systems[s].entities
                   /\ r.reg.systems[s].entities
                          = QualifyingIn(r.reg, issued \cup {r.entity}, s)

\* A live entity with an empty tag set next to a registered system whose
\* interest set holds another entity.
C15_Witness ==
    /\ Idle
    /\ last_removed = NoEntity
    /\ \E n \in DOMAIN TagIndex :
           /\ is_alive(EM, n)
           /\ TagIndex[n] = {}
           /\ \E s \in DOMAIN Systems :
                  Systems[s].entities # {} /\ n \notin Systems[s].entities

(* C16: run_system of a system type that is not registered (never          *)
(* registered, or removed by remove_system) returns NoSuchSystem, leaves   *)
(* entities, components, tag sets and interest sets as they were and calls *)
(* no run; a run only ever executes for a registered system.               *)
C16_UnregisteredRunIsNoOp ==
    /\ Idle =>
           \A s \in SystemTypes \ DOMAIN Systems :
               Registry_run_system_entry(registry, s)
                   = [reg |-> registry, result |-> "NoSuchSystem", run |-> NoSystem]
    /\ InRun => running \in DOMAIN Systems

\* The system that ran last has been removed by remove_system, while another
\* system is registered with a non-empty interest set, and a call can follow.
C16_Witness ==
    /\ Idle
    /\ steps < MaxSteps
    /\ last_run.system \in SystemTypes \ DOMAIN Systems
    /\ Registry_run_system_entry(registry, last_run.system).result = "NoSuchSystem"
    /\ \E u \in DOMAIN Systems : Systems[u].entities # {}

(* C17: Registry::remove_entity of a live entity e, called between runs in  *)
(* any state, returns Ok; afterwards e is dead, is not yielded by          *)
(* entities() and is in no system's interest set, and for every other      *)
(* handle liveness, tag set, what get_component reads and membership in    *)
(* every interest set are what they were.                                  *)
C17_RemoveEntityFrame ==
    Idle =>
        \A e \in issued :
            is_alive(EM, e) =>
                LET r == Registry_remove_entity(registry, e)
                    after == r.reg.ec_manager
                IN  /\ r.result = "Ok"
                    /\ is_dead(after.entity_manager, e)
                    /\ e \notin Entities(r.reg)
                    /\ DOMAIN r.reg.systems = DOMAIN Systems
                    /\ \A s \in DOMAIN r.reg.systems : e \notin r.reg.systems[s].entities
                    /\ \A f \in issued \ {e} :
                          /\ is_alive(after.entity_manager, f) <=> is_alive(EM, f)
                          /\ f \in Entities(r.reg) <=> f \in Entities(registry)
                          /\ f \in Entities(registry) =>
                                after.entity_components[f] = TagIndex[f]
                          /\ \A t \in ComponentTypes :
                                EntityComponentManager_get_component(after, f, t)
                                    = EntityComponentManager_get_component(ECM, f, t)
                          /\ \A s \in DOMAIN Systems :
                                f \in r.reg.systems[s].entities <=> f \in Systems[s].entities

\* The last allocator operation removed an entity that owned a component; it is
\* gone from entities() while another entity is alive, owns a component and is in
\* an interest set.
C17_Witness ==
    /\ Idle
    /\ last_removed # NoEntity
    /\ is_dead(EM, last_removed)
    /\ last_removed \notin Entities(registry)
    /\ \E t \in DOMAIN Pools :
           /\ Pools[t][last_removed.id + 1][1] = last_removed.generation
           /\ Pools[t][last_removed.id + 1][2] # None
    /\ \E f \in Entities(registry) : \E s \in DOMAIN Systems :
           /\ is_alive(EM, f)
           /\ f \in Systems[s].entities
           /\ last_removed \notin Systems[s].entities

(* C18: after Registry::add_component of type T with value v to e has       *)
(* returned Ok (called between runs in any state), T is in tags(e),        *)
(* get_component of T on e reads v, e is in the interest set of every      *)
(* registered system whose required set is included in tags(e), its        *)
(* membership in the other systems is what it was, and no other entity's   *)
(* membership in any interest set has changed.                             *)
C18_AddComponentEffect ==
    Idle =>
        \A e \in issued : \A t \in ComponentTypes : \A v \in Values(t) :
            LET r == Registry_add_component(registry, e, t, v)
                after == r.reg.ec_manager
            IN  r.result = "Ok" =>
                    /\ t \in after.entity_components[e]
                    /\ after.entity_components[e] = TagsOf(e) \cup {t}
                    /\ EntityComponentManager_get_component(after, e, t) = Ok(v)
                    /\ DOMAIN r.reg.systems = DOMAIN Systems
                    /\ \A s \in DOMAIN Systems :
                          /\ required_components(s) \subseteq after.entity_components[e]
                                => e \in r.reg.systems[s].entities
                          /\ ~(required_components(s) \subseteq after.entity_components[e])
                                => (e \in r.reg.systems[s].entities
                                        <=> e \in Systems[s].entities)
                          /\ \A f \in issued \ {e} :
                                f \in r.reg.systems[s].entities <=> f \in Systems[s].entities

\* An entity owns a component, reads its value and is in the interest set of a
\* system that requires it, while another live entity is not.
C18_Witness ==
    /\ Idle
    /\ \E e \in Entities(registry) : \E t \in TagsOf(e) : \E s \in DOMAIN Systems :
           /\ is_alive(EM, e)
           /\ t \in required_components(s)
           /\ e \in Systems[s].entities
           /\ EntityComponentManager_get_component(ECM, e, t).result = "Ok"
           /\ EntityComponentManager_get_component(ECM, e, t).value # None
           /\ Registry_add_component(registry, e, t,
                  EntityComponentManager_get_component(ECM, e, t).value).result = "Ok"
           /\ \E f \in Entities(registry) \ {e} :
                  is_alive(EM, f) /\ f \notin Systems[s].entities

(* C19: after Registry::remove_component of type T from e has returned Ok  *)
(* (called between runs in any state), T is not in tags(e), get_component  *)
(* of T on e reads Ok(None), e is in the interest set of no system whose   *)
(* required set contains T and in that of every registered system whose    *)
(* required set tags(e) still includes; no other entity's membership has   *)
(* changed.                                                                *)
C19_RemoveComponentEffect ==
    Idle =>
        \A e \in issued : \A t \in ComponentTypes :
            LET r == Registry_remove_component(registry, e, t)
                after == r.reg.ec_manager
            IN  r.result = "Ok" =>
                    /\ t \notin after.entity_components[e]
                    /\ after.entity_components[e] = TagsOf(e) \ {t}
                    /\ EntityComponentManager_get_component(after, e, t) = Ok(None)
                    /\ DOMAIN r.reg.systems = DOMAIN Systems
                    /\ \A s \in DOMAIN Systems :
                          /\ t \in required_components(s)
                                => e \notin r.reg.systems[s].entities
                          /\ required_components(s) \subseteq after.entity_components[e]
                                => e \in r.reg.systems[s].entities
                          /\ \A f \in issued \ {e} :
                                f \in r.reg.systems[s].entities <=> f \in Systems[s].entities

\* The only entity ever created has lost a component type it owned: the type's
\* pool exists, the tag is gone and the read is Ok(None); the entity is out of
\* the system that requires the type and still in one that does not.
C19_Witness ==
    /\ Idle
    /\ \E e \in Entities(registry) : \E t \in DOMAIN Pools :
           /\ issued = {e}
           /\ is_alive(EM, e)
           /\ t \notin TagsOf(e)
           /\ Pools[t][e.id + 1] = <<e.generation, None>>
           /\ EntityComponentManager_get_component(ECM, e, t) = Ok(None)
           /\ \E s \in DOMAIN Systems :
                  t \in required_components(s) /\ e \notin Systems[s].entities
           /\ \E s \in DOMAIN Systems :
                  t \notin required_components(s) /\ e \in Systems[s].entities

(* C20: adding type T to a live entity e with value v1 and then again with   *)
(* value v2 (between runs, from any state) returns Ok both times; after    *)
(* the second add get_component of T on e reads v2, and the tag set of e,  *)
(* the number of slots of T's pool, every other slot of it and every       *)
(* interest set are what they were after the first add.                    *)
C20_SecondAddReplaces ==
    Idle =>
        \A e \in issued : \A t \in ComponentTypes : \A v1, v2 \in Values(t) :
            LET first == Registry_add_component(registry, e, t, v1)
                second == Registry_add_component(first.reg, e, t, v2)
                pool1 == first.reg.ec_manager.component_pools[t]
                pool2 == second.reg.ec_manager.component_pools[t]
            IN  first.result = "Ok" =>
                    /\ second.result = "Ok"
                    /\ EntityComponentManager_get_component(second.reg.ec_manager, e, t)
                          = Ok(v2)
                    /\ second.reg.ec_manager.entity_components
                          = first.reg.ec_manager.entity_components
                    /\ t \in second.reg.ec_manager.entity_components[e]
                    /\ Len(pool2) = Len(pool1)
                    /\ \A i \in 1..Len(pool1) : i # e.id + 1 => pool2[i] = pool1[i]
                    /\ pool2[e.id + 1] = <<e.generation, v2>>
                    /\ second.reg.systems = first.reg.systems

\* An entity owns a component of a type with a second value to add, is in an
\* interest set, and shares the pool with another entity that owns the type.
C20_Witness ==
    /\ Idle
    /\ \E e \in Entities(registry) : \E t \in TagsOf(e) :
           /\ is_alive(EM, e)
           /\ EntityComponentManager_get_component(ECM, e, t).result = "Ok"
           /\ \E v2 \in Values(t) :
                  /\ EntityComponentManager_get_component(ECM, e, t).value \notin {None, v2}
                  /\ EntityComponentManager_get_component(
                         Registry_add_component(registry, e, t, v2).reg.ec_manager, e, t)
                       = Ok(v2)
           /\ \E s \in DOMAIN Systems : e \in Systems[s].entities
           /\ \E f \in Entities(registry) \ {e} :
                  t \in TagsOf(f) /\ ComponentPool_get(Pools[t], f) # None

(* C21: add_component on a dead handle returns DeadEntity and changes       *)
(* nothing, through the store (and so through the view) in every state and *)
(* through the Registry between runs: no pool is created, no slot is       *)
(* written (the live entity on the same id reads what it read), no tag set *)
(* and no interest set changes.                                            *)
C21_DeadAddChangesNothing ==
    \A e \in issued : \A t \in ComponentTypes : \A v \in Values(t) :
        is_dead(EM, e) =>
            /\ EntityComponentManager_add_component(ECM, e, t, v)
                  = [ecm |-> ECM, result |-> "DeadEntity"]
            /\ Idle => Registry_add_component(registry, e, t, v)
                          = [reg |-> registry, result |-> "DeadEntity"]
            /\ \A n \in Entities(registry) :
                  n.id = e.id =>
                      EntityComponentManager_get_component(
                          EntityComponentManager_add_component(ECM, e, t, v).ecm, n, t)
                        = EntityComponentManager_get_component(ECM, n, t)

\* Between runs: a dead handle whose id is in use by a live entity that owns a
\* value of one type and is in an interest set, while another type has no pool.
C21_Witness ==
    /\ Idle
    /\ \E e \in removed : \E n \in Entities(registry) : \E t, u \in ComponentTypes :
           /\ n.id = e.id
           /\ t \in DOMAIN Pools
           /\ ComponentPool_get(Pools[t], n) # None
           /\ u \notin DOMAIN Pools
           /\ \E s \in DOMAIN Systems : n \in Systems[s].entities
           /\ \A v \in Values(u) :
                  Registry_add_component(registry, e, u, v).result = "DeadEntity"

(* C22: a dispatch for an event type calls the handlers subscribed for that  *)
(* type in subscription order, once per subscription, each handler          *)
(* returning before the next is called; when the dispatch has returned,     *)
(* every one of them has been called.                                       *)
SubscribedFor(type_id, count) ==
    LET of_type == SelectSeq(SubSeq(subscribed, 1, count), LAMBDA p : p[1] = type_id)
    IN  [i \in 1..Len(of_type) |-> of_type[i][2]]

C22_DispatchInSubscriptionOrder ==
    LET expected == SubscribedFor(dispatch.type_id, dispatch.subscriptions)
        called == Len(dispatch.handled)
        returned == Len(dispatch.completed)
    IN  /\ called <= Len(expected)
        /\ dispatch.handled = SubSeq(expected, 1, called)
        /\ returned <= called /\ called <= returned + 1
        /\ dispatch.completed = SubSeq(dispatch.handled, 1, returned)
        /\ (dispatch.next > 0 /\ dispatch.pc = "call") =>
               called = returned /\ dispatch.next = returned + 1
        /\ (NotDispatching /\ panicked = NoPanic) => dispatch.completed = expected

\* A finished dispatch of a key press to three subscriptions of two handlers,
\* the handler subscribed twice having toggled its flag back.
C22_Witness ==
    /\ NotDispatching
    /\ panicked = NoPanic
    /\ dispatch.event = PhysicalKey("KeyB")
    /\ dispatch.completed = <<"h2", "h1", "h2">>
    /\ render_collision_boxes = [h \in Handlers |-> h = "h1"]

(* C23: a dispatch for an event type that has no subscribers calls no       *)
(* handler, not those subscribed for other types either, changes neither    *)
(* the bus nor the store, and returns without an error.                     *)
C23_NoSubscribersNoOp ==
    [][(NotDispatching /\ dispatch' # dispatch
            /\ SubscribedFor(dispatch'.type_id, Len(subscribed)) = <<>>)
        => (/\ dispatch'.next = 0
            /\ dispatch'.handled = <<>>
            /\ panicked' = NoPanic
            /\ UNCHANGED <<registry, changed_entities, running, event_bus, subscribed,
                           render_collision_boxes>>)]_vars

\* A key press dispatched with handlers subscribed for collisions only.
C23_Witness ==
    /\ dispatch.type_id = "PhysicalKey"
    /\ dispatch.event = PhysicalKey("KeyB")
    /\ dispatch.subscriptions = Len(subscribed)
    /\ SubscribedFor("PhysicalKey", Len(subscribed)) = <<>>
    /\ Len(SubscribedFor("CollisionEvent", Len(subscribed))) = 2
    /\ NotDispatching
    /\ dispatch.handled = <<>>
    /\ panicked = NoPanic
    /\ render_collision_boxes = [h \in Handlers |-> FALSE]


(* C24: remove_system::<S>, called between runs, removes S's instance and   *)
(* nothing else: the other registered systems remain with their interest    *)
(* sets, and the entities, their tags and the component values are what     *)
(* they were; when S is not registered the registry is unchanged.           *)
C24_RemoveSystemOnlyThatSystem ==
    Idle =>
        \A s \in SystemTypes :
            LET after == Registry_remove_system(registry, s)
            IN  /\ after.ec_manager = registry.ec_manager
                /\ DOMAIN after.systems = (DOMAIN Systems) \ {s}
                /\ \A other \in DOMAIN after.systems : after.systems[other] = Systems[other]
                /\ s \notin DOMAIN Systems => after = registry

\* The system that ran last has been removed, the entities that were of interest
\* to it still qualifying, while another system holds its interest set.
C24_Witness ==
    /\ Idle
    /\ \E s \in SystemTypes \ DOMAIN Systems :
           /\ last_run.system = s
           /\ Qualifying(s) # {}
           /\ Registry_remove_system(registry, s) = registry
    /\ \E other \in DOMAIN Systems :
           /\ Systems[other].entities # {}
           /\ Registry_remove_system(registry, other).systems = EmptyMap

(* C27: create with an empty free list returns the id next_entity_id with   *)
(* generation 0 and increments next_entity_id; with a non-empty free list   *)
(* it returns the id freed last, under that id's current generation, and    *)
(* leaves next_entity_id alone; remove never changes next_entity_id.        *)
C27_CreateMintsOrRecycles ==
    LET r == EntityManager_create_entity(EM)
        free == EM.free_entity_ids
    IN  /\ free = <<>> =>
               /\ r.entity = [id |-> EM.next_entity_id, generation |-> 0]
               /\ r.em.next_entity_id = EM.next_entity_id + 1
               /\ r.em.free_entity_ids = <<>>
        /\ free # <<>> =>
               /\ r.entity.id = free[Len(free)]
               /\ r.entity.generation = EM.generations[r.entity.id + 1]
               /\ r.em.next_entity_id = EM.next_entity_id
               /\ r.em.free_entity_ids = SubSeq(free, 1, Len(free) - 1)
               /\ last_removed # NoEntity =>
                      r.entity = [id |-> last_removed.id,
                                  generation |-> last_removed.generation + 1]
        /\ r.em.generations = EM.generations
        /\ \A e \in issued :
               EntityManager_remove_entity(EM, e).em.next_entity_id = EM.next_entity_id

\* Two ids are free, the one freed last on top: create returns it under its new
\* generation and mints nothing.
C27_Witness ==
    /\ Len(EM.free_entity_ids) = 2
    /\ EM.free_entity_ids[1] # EM.free_entity_ids[2]
    /\ last_removed.id = EM.free_entity_ids[2]
    /\ EntityManager_create_entity(EM).entity = [id |-> last_removed.id, generation |-> 1]
    /\ EM.next_entity_id = 2
    /\ EntityManager_create_entity(EM).em.next_entity_id = 2

(* C28: ComponentPool::get, called with any handle that was ever issued,    *)
(* returns a value only when the slot was written under the generation of   *)
(* that handle; a stale handle never reads the value of a later entity on   *)
(* its id.                                                                  *)
C28_PoolReadsOwnGenerationOnly ==
    \A e \in issued : \A t \in DOMAIN Pools :
        ComponentPool_get(Pools[t], e) # None => Pools[t][e.id + 1][1] = e.generation

(* C28, amended: ComponentPool::get called with a live handle returns a      *)
(* value only when the slot was written under the handle's generation; a    *)
(* stale handle is kept from the later entity's value by the liveness check *)
(* of get_component, the pool itself returning that value to it.            *)
C28_LivePoolReadsOwnGeneration ==
    \A e \in issued : \A t \in DOMAIN Pools :
        /\ (is_alive(EM, e) /\ ComponentPool_get(Pools[t], e) # None)
               => Pools[t][e.id + 1][1] = e.generation
        /\ (is_dead(EM, e) /\ ComponentPool_get(Pools[t], e) # None)
               => EntityComponentManager_get_component(ECM, e, t) = Err("DeadEntity")

\* An entity on a recycled id that has no value of a type while the slot of its id
\* holds its predecessor's value, and one that has a value its stale predecessor
\* would read from the pool.
C28_Witness ==
    /\ \E n \in DOMAIN TagIndex : \E t \in DOMAIN Pools :
           /\ n.generation > 0
           /\ Pools[t][n.id + 1][2] # None
           /\ Pools[t][n.id + 1][1] < n.generation
           /\ ComponentPool_get(Pools[t], n) = None
    /\ \E n \in DOMAIN TagIndex : \E e \in removed : \E t \in DOMAIN Pools :
           /\ e.id = n.id
           /\ ComponentPool_get(Pools[t], n) # None
           /\ ComponentPool_get(Pools[t], e) = ComponentPool_get(Pools[t], n)

(* C29: in every state the tag index has an entry for exactly the issued    *)
(* handles that are alive, so entities() yields exactly the live entities,  *)
(* and the tag-set lookups of add_component, remove_component and           *)
(* has_components do not fail for a live handle.                            *)
C29_TagIndexIsLiveEntities ==
    /\ Entities(registry) = {e \in issued : is_alive(EM, e)}
    /\ \A e \in issued :
           is_alive(EM, e) =>
               /\ ~has_components_panics(ECM, e)
               /\ \A t \in ComponentTypes :
                      /\ EntityComponentManager_remove_component(ECM, e, t).result # "panic"
                      /\ \A v \in Values(t) :
                             EntityComponentManager_add_component(ECM, e, t, v).result = "Ok"

\* Two live entities, one of them on the id of a removed handle, and a removed
\* handle that is not in the index.
C29_Witness ==
    /\ Cardinality(Entities(registry)) = 2
    /\ \E e \in removed : \E n \in Entities(registry) :
           /\ n.id = e.id
           /\ e \notin Entities(registry)
           /\ TagsOf(n) # {}
    /\ running # NoSystem

(* C30: for every live entity e and every component type T, T is in the tag *)
(* set of e exactly when get_component::<T>(e) returns Ok(Some(value)).     *)
C30_TagsAgreeWithPools ==
    \A e \in issued : \A t \in ComponentTypes :
        is_alive(EM, e) =>
            (t \in TagsOf(e)
                <=> /\ EntityComponentManager_get_component(ECM, e, t).result = "Ok"
                    /\ EntityComponentManager_get_component(ECM, e, t).value # None)


(* C25: a run of CollisionSystem, the default handler being subscribed,     *)
(* over an interest set in which exactly one pair of entities has           *)
(* overlapping rectangles: when run has gone through its loops, and when    *)
(* run_system has ended after it, the two entities of the pair are dead and *)
(* every other entity is alive.                                             *)
Box(ecm, e) ==
    LET rigid_body == ComponentPool_get(ecm.component_pools["RigidBodyComponent"], e)
        collision == ComponentPool_get(ecm.component_pools["CollisionComponent"], e)
        left == position_of(rigid_body)[1] + offset_of(collision)[1]
        top == position_of(rigid_body)[2] + offset_of(collision)[2]
    IN  [left |-> left, right |-> left + width_height_of(collision)[1],
         top |-> top, bottom |-> top + width_height_of(collision)[2]]

Max(a, b) == IF a >= b THEN a ELSE b

Min(a, b) == IF a <= b THEN a ELSE b

\* The closed boxes a and b have a point in common.
BoxesOverlap(a, b) ==
    /\ Max(a.left, b.left) <= Min(a.right, b.right)
    /\ Max(a.top, b.top) <= Min(a.bottom, b.bottom)

\* The pairs of the run's entities whose boxes overlapped when run began.
OverlappingPairs ==
    {pair \in SUBSET {system_run.entities[i] : i \in 1..Len(system_run.entities)} :
        /\ Cardinality(pair) = 2
        /\ \A a, b \in pair :
               a # b => BoxesOverlap(Box(system_run.before, a), Box(system_run.before, b))}

RECURSIVE SumSeq(_)
SumSeq(seq) == IF seq = <<>> THEN 0 ELSE seq[1] + SumSeq(Tail(seq))

\* The entities MovementSystem::run has moved whose component has not been
\* replaced since the last run.
Integrated ==
    {e \in DOMAIN integrated :
        EntityComponentManager_get_component(ECM, e, "RigidBodyComponent")
            = Ok(integrated[e].last)}

C26_ClosedFormExact ==
    \A e \in Integrated :
        LET r == integrated[e]
            total == SumSeq(r.delta_times)
        IN  /\ position_of(r.last) =
                   <<position_of(r.initial)[1] + velocity_of(r.initial)[1] * total,
                     position_of(r.initial)[2] + velocity_of(r.initial)[2] * total>>
            /\ velocity_of(r.last) = velocity_of(r.initial)

(* C26, amended: a run of MovementSystem with delta-time dt sets the        *)
(* position of every entity of its interest set to the f32 sum of the       *)
(* position and the f32 product velocity * dt, leaves its velocity alone    *)
(* and changes nothing else in the store; after runs with dt1..dtn the      *)
(* position is initial + velocity * (dt1 + ... + dtn) when that value and   *)
(* every intermediate one is exact in f32.                                  *)
C26_IntegrationInF32 ==
    /\ (running = "MovementSystem" /\ system_run.pc = "done" /\ panicked = NoPanic) =>
           LET before == system_run.before
               delta_time == system_run.delta_time
               interest == Systems["MovementSystem"].entities
               value(ecm, e) == ComponentPool_get(ecm.component_pools["RigidBodyComponent"], e)
           IN  /\ \A e \in interest :
                      /\ position_of(value(ECM, e)) =
                             <<f32_round(position_of(value(before, e))[1]
                                   + f32_round(velocity_of(value(before, e))[1] * delta_time)),
                               f32_round(position_of(value(before, e))[2]
                                   + f32_round(velocity_of(value(before, e))[2] * delta_time))>>
                      /\ velocity_of(value(ECM, e)) = velocity_of(value(before, e))
               /\ ECM.entity_manager = before.entity_manager
               /\ ECM.entity_components = before.entity_components
               /\ DOMAIN Pools = DOMAIN before.component_pools
               /\ \A t \in DOMAIN Pools :
                      /\ Len(Pools[t]) = Len(before.component_pools[t])
                      /\ \A i \in 1..Len(Pools[t]) :
                             (t = "RigidBodyComponent" /\ \E e \in interest : e.id + 1 = i)
                                 \/ Pools[t][i] = before.component_pools[t][i]
    /\ \A e \in Integrated :
           LET r == integrated[e]
               total == SumSeq(r.delta_times)
               x == position_of(r.initial)[1] + velocity_of(r.initial)[1] * total
               y == position_of(r.initial)[2] + velocity_of(r.initial)[2] * total
           IN  /\ velocity_of(r.last) = velocity_of(r.initial)
               /\ (x <= f32_exact_limit /\ y <= f32_exact_limit) => position_of(r.last) = <<x, y>>

\* The second run is over: the entity that started at (0,0) with velocity (1,0)
\* and was moved with delta-times 1 and 2 is at (3,0), next to an entity that
\* is not of interest to MovementSystem.
C26_Witness ==
    /\ running = "MovementSystem"
    /\ system_run.pc = "done"
    /\ \E e \in Systems["MovementSystem"].entities :
           /\ e \in Integrated
           /\ integrated[e].initial = RigidBodyComponent(<<0, 0>>, <<1, 0>>)
           /\ integrated[e].delta_times = <<1, 2>>
           /\ position_of(ComponentPool_get(Pools["RigidBodyComponent"], e)) = <<3, 0>>
    /\ \E f \in Entities(registry) : TagsOf(f) = {"KeyboardControlComponent"}


(* C31: during a run of CollisionSystem, every CollisionEvent is dispatched *)
(* for two entities that are alive at the dispatch, so that neither unwrap  *)
(* of the default handler panics; in particular, with A overlapping B and   *)
(* C, (A, C) is not dispatched once (A, B) has removed A.                   *)
C31_DispatchedEntitiesAlive ==
    (/\ running = "CollisionSystem"
     /\ dispatch.next > 0
     /\ dispatch.handled = <<>>
     /\ dispatch.event.kind = "CollisionEvent")
        => /\ is_alive(EM, dispatch.event.entity_a)
           /\ is_alive(EM, dispatch.event.entity_b)

\* The closed ranges [a0, a1] and [b0, b1] have a point in common.
SharePoint(a0, a1, b0, b1) == \E p \in a0..a1 : p \in b0..b1

WellFormed(rectangle) ==
    /\ rectangle.top_left[1] <= rectangle.bottom_right[1]
    /\ rectangle.top_left[2] <= rectangle.bottom_right[2]

XRangesTouch ==
    /\ evaluation.self.top_left[1] < evaluation.self.bottom_right[1]
    /\ evaluation.self.bottom_right[1] = evaluation.other.top_left[1]
    /\ evaluation.other.top_left[1] < evaluation.other.bottom_right[1]

(* C32: for two well-formed ranges range_intersects returns true exactly    *)
(* when the closed ranges have a point in common (ranges that only touch at *)
(* an endpoint included), with the same value when the two ranges are       *)
(* swapped; collides_with is true exactly when the x ranges and the y       *)
(* ranges both have a point in common.                                      *)
C32_RangeIntersectsClosedSymmetric ==
    LET self == evaluation.self
        other == evaluation.other
        x_share == SharePoint(self.top_left[1], self.bottom_right[1],
                              other.top_left[1], other.bottom_right[1])
        y_share == SharePoint(self.top_left[2], self.bottom_right[2],
                              other.top_left[2], other.bottom_right[2])
    IN  /\ (/\ evaluation.pc = "range_intersects"
            /\ self.top_left[1] <= self.bottom_right[1]
            /\ other.top_left[1] <= other.bottom_right[1])
               => /\ evaluation.result = x_share
                  /\ evaluation.swapped = evaluation.result
        /\ (evaluation.pc = "collides_with" /\ WellFormed(self) /\ WellFormed(other))
               => /\ evaluation.result = (x_share /\ y_share)
                  /\ evaluation.swapped = evaluation.result

\* Two x ranges that meet in one endpoint only, reported as intersecting.
C32_Witness ==
    /\ evaluation.pc = "range_intersects"
    /\ XRangesTouch
    /\ evaluation.result

(* C33: create_entity never returns a handle it has returned before: in    *)
(* every state the handle the next create_entity returns differs, in id or  *)
(* in generation, from every handle issued so far; and of the handles       *)
(* issued for one id at most one is alive.                                  *)
C33_HandlesIssuedOnce ==
    /\ EntityManager_create_entity(EM).entity \notin issued
    /\ \A e, f \in issued :
           (e.id = f.id /\ is_alive(EM, e) /\ is_alive(EM, f)) => e = f

\* An id issued three times: two handles of it dead, the third alive.
C33_Witness ==
    \E e, f, g \in issued :
        /\ e.id = f.id /\ f.id = g.id
        /\ e.generation < f.generation /\ f.generation < g.generation
        /\ is_dead(EM, e) /\ is_dead(EM, f) /\ is_alive(EM, g)

\* The ids in the free list, as a set.
FreeIds == {EM.free_entity_ids[i] : i \in 1..Len(EM.free_entity_ids)}

(* C34: in every reachable state the free list holds no id twice, every id  *)
(* in it is below next_entity_id, and no issued handle that is alive has    *)
(* its id in the free list.                                                 *)
C34_FreeListConsistent ==
    /\ \A i, j \in 1..Len(EM.free_entity_ids) :
           EM.free_entity_ids[i] = EM.free_entity_ids[j] => i = j
    /\ \A id \in FreeIds : id < EM.next_entity_id
    /\ \A e \in issued : is_alive(EM, e) => e.id \notin FreeIds

\* One id waits in the free list while a recycled handle of another id is alive.
C34_Witness ==
    /\ Len(EM.free_entity_ids) = 1
    /\ EM.next_entity_id = 2
    /\ \E e \in issued : is_alive(EM, e) /\ e.generation = 1

(* C39: every slot of every pool carries a generation that is at most the   *)
(* generation the allocator records for the slot's id, so a read through a  *)
(* live handle returns a value only from a slot written under the handle's  *)
(* own generation.                                                          *)
C39_SlotGenerationsBounded ==
    /\ \A t \in DOMAIN Pools : \A i \in 1..Len(Pools[t]) :
           Pools[t][i][1] <= alive_generation(EM, i - 1)
    /\ \A e \in issued : \A t \in DOMAIN Pools :
           (is_alive(EM, e) /\ EntityComponentManager_get_component(ECM, e, t).value # None)
               => Pools[t][e.id + 1][1] = alive_generation(EM, e.id)

\* A slot written under an earlier generation of its id than the recorded one,
\* and a recycled handle that reads the value written under its own generation.
C39_Witness ==
    /\ \E t \in DOMAIN Pools : \E i \in 1..Len(Pools[t]) :
           /\ Pools[t][i][2] # None
           /\ Pools[t][i][1] < alive_generation(EM, i - 1)
    /\ \E e \in issued : \E t \in DOMAIN Pools :
           /\ e.generation > 0
           /\ is_alive(EM, e)
           /\ EntityComponentManager_get_component(ECM, e, t).value # None

\* e is an entity of the program that is alive.
Live(e) == e \in issued /\ is_alive(EM, e)

(* C35: during a run, every call through the view that changes whether an   *)
(* entity is alive or which tags it has (create_entity, remove_entity,      *)
(* add_component, remove_component) leaves that entity in changed_entities, *)
(* which loses no entity while the run lasts; get_component_mut adds        *)
(* nothing to it. So an entity that is not in changed_entities when the run *)
(* ends is alive or dead, and tagged, as it was when the run began.         *)
C35_ChangedEntitiesComplete ==
    [][(InRun /\ running' = running)
        => /\ changed_entities \subseteq changed_entities'
           /\ \A e \in issued' :
                  (Live(e)' # Live(e) \/ TagsOf(e)' # TagsOf(e)) => e \in changed_entities'
           /\ view_ops' = view_ops => changed_entities' = changed_entities]_vars

\* A run that has created an entity and removed another through the view, both
\* recorded, beside a live tagged entity it has not touched.
C35_Witness ==
    /\ InRun
    /\ \E e \in changed_entities : e \in view_removed
    /\ \E e \in changed_entities : e \in last_run.created /\ is_alive(EM, e)
    /\ \E e \in DOMAIN TagIndex : e \notin changed_entities /\ TagsOf(e) # {}

(* C36: the generation of an id never wraps: however often the id is        *)
(* removed and reissued, a handle whose removal has succeeded is dead in     *)
(* every later state.                                                        *)
C36_InvalidatedHandlesStayDead ==
    \A e \in removed : is_dead(EM, e)

\* The live entities whose tags include CameraFocusSystem's required set.
FocusCandidates == {e \in issued : is_alive(EM, e) /\ is_superset(TagsOf(e), FocusTypes)}

(* C37: between calls, the entity a registered CameraFocusSystem tracks is   *)
(* None only if no live entity has the required components, and otherwise   *)
(* it is a live entity that has them, also after one of several such        *)
(* entities was removed.                                                    *)
C37_TrackedEntityFollowsInterest ==
    (Idle /\ "CameraFocusSystem" \in DOMAIN registry.systems)
        => LET tracked == registry.systems["CameraFocusSystem"].entity
           IN  /\ tracked = NoEntity => FocusCandidates = {}
               /\ tracked # NoEntity => tracked \in FocusCandidates

\* The viewport is no larger than the map on axis i.
ViewportFits(i) ==
    evaluation.camera_focus.viewport_size[i]
        <= evaluation.camera_focus.map_bottom_right[i] - evaluation.camera_focus.map_top_left[i]

\* The left (top) edge of the rectangle of the viewport's size centred on
\* position + focus_offset, on axis i, as a number.
CentredEdge(i) ==
    evaluation.position[i] + evaluation.camera_focus.focus_offset[i]
        - evaluation.camera_focus.viewport_size[i] \div 2

\* The camera rectangle lies within the map on axis i, and is the centred
\* rectangle when that one lies within the map.
CameraClamped(i) ==
    LET low == evaluation.camera.top_left[i]
        high == evaluation.camera.top_left[i] + evaluation.camera_focus.viewport_size[i]
        centred_inside ==
            /\ evaluation.camera_focus.map_top_left[i] <= CentredEdge(i)
            /\ CentredEdge(i) + evaluation.camera_focus.viewport_size[i]
                   <= evaluation.camera_focus.map_bottom_right[i]
    IN  /\ evaluation.camera_focus.map_top_left[i] <= low
        /\ high <= evaluation.camera_focus.map_bottom_right[i]
        /\ centred_inside => low = CentredEdge(i)

\* Every value the computation meets on axis i is an integer of magnitude at
\* most 2^24, which f32 holds exactly.
ExactOnAxis(i) ==
    /\ evaluation.position[i] + evaluation.camera_focus.focus_offset[i]
           + evaluation.camera_focus.viewport_size[i] \div 2 <= f32_exact_limit
    /\ evaluation.camera_focus.map_bottom_right[i] <= f32_exact_limit

(* C38: when the viewport is no larger than the map on both axes, the       *)
(* camera rectangle (top_left, top_left + viewport_size) computed by        *)
(* CameraFocusSystem::run lies within [map_top_left, map_bottom_right] on   *)
(* both axes, and is the rectangle centred on position + focus_offset       *)
(* whenever that rectangle is inside the map.                               *)
C38_CameraWithinMap ==
    (evaluation.pc = "set_camera" /\ ViewportFits(1) /\ ViewportFits(2))
        => /\ CameraClamped(1)
           /\ CameraClamped(2)
           /\ evaluation.camera.width_height = evaluation.camera_focus.viewport_size

(* C38, amended: the same, for the computations in which every sum and      *)
(* difference is exactly representable in f32.                              *)
C38_CameraWithinMapWhenExact ==
    (/\ evaluation.pc = "set_camera"
     /\ ViewportFits(1) /\ ViewportFits(2)
     /\ ExactOnAxis(1) /\ ExactOnAxis(2))
        => /\ CameraClamped(1)
           /\ CameraClamped(2)
           /\ evaluation.camera.width_height = evaluation.camera_focus.viewport_size

\* An exact computation whose centred rectangle sticks out of the map on the x
\* axis, beyond the right edge, and lies inside it on the y axis.
C38_Witness ==
    /\ evaluation.pc = "set_camera"
    /\ ViewportFits(1) /\ ViewportFits(2)
    /\ ExactOnAxis(1) /\ ExactOnAxis(2)
    /\ CentredEdge(1) + evaluation.camera_focus.viewport_size[1]
           > evaluation.camera_focus.map_bottom_right[1]
    /\ evaluation.camera.top_left[1] + evaluation.camera_focus.viewport_size[1]
           = evaluation.camera_focus.map_bottom_right[1]
    /\ evaluation.camera.top_left[2] = CentredEdge(2)

====
